---------------------------- MODULE Spec2Model ----------------------------
(***************************************************************************)
(* CanvasForge: the scene / layer list / selection-overlay / undo engine   *)
(* core of src/main.py and src/undo_manager.py as a state machine.         *)
(*                                                                         *)
(* Methods of the program are operators from a world record (the fields of *)
(* the Qt objects and of the Python objects) to a world record; an action  *)
(* is one event handler run to completion, nested signal deliveries        *)
(* included, and commits the resulting world to the variables.             *)
(*                                                                         *)
(* Positions are in quarter pixels (4 per pixel) and the mouse moves on    *)
(* the half-pixel grid, so that rectangle centres and the roundings of     *)
(* QRectF.toAlignedRect and QPointF.toPoint are exact integers, computed   *)
(* and not assumed away.  Hosts of a selection overlay are unrotated and   *)
(* unscaled in the specifications that use the extraction protocol.        *)
(***************************************************************************)
EXTENDS Integers, Sequences, FiniteSets, TLC

\* ------------------------------------------------------------------ bounds
MaxItems == 3       \* graphics items ever constructed
MaxUndoItems == 2   \* the same, in the specifications with undoable actions
MaxToolItems == 2   \* the same, in the specification of the tools
MaxHistory == 3     \* UndoManager._max_history
MaxOps == 5         \* UndoableAction objects ever constructed
MaxItemOps == 2     \* the same, in SpecItems and SpecRoundTrip
MaxGroupDepth == 2  \* open groups at a time
MaxCoord == 4       \* largest mouse coordinate, in half pixels
MaxColour == 1      \* opaque colours
MaxDragScale == 100 \* largest scale, in tenths, at which a resize handle is pressed
MaxTurn == 90       \* largest rotation, in degrees, at which a tool presses an item
MaxPressScale == 10 \* largest scale, in tenths, at which a tool presses an item
MaxPaths == 2       \* image files of the library folder
MaxMtime == 1       \* modification times of a file after the first
MaxPlugins == 2             \* plugin directories on the disk
MaxActions == 1             \* toolbar and menu actions a plugin registers
MaxOrphans == 1             \* crop overlays left in the scene without an owner
MaxCrops == 2               \* crops applied
MaxRequests == 3    \* get_thumbnail calls

Items == 1..MaxItems
NoItem == 0

\* ------------------------------------------------------------------ state
VARIABLES
    made,                  \* number of graphics items constructed so far
    scene_items,           \* items whose scene() is the main scene
    item_kind,             \* class of each item
    item_pos, item_rotation, item_scale, item_z, item_prop,
    item_pixmap, image_bytes,
    item_selected,         \* QGraphicsItem selected flag
    item_handles,          \* items whose .handles is a SelectionHandles in the scene
    selection_overlay,     \* RasterItem._selection_overlay
    selection_start_scene, \* RasterItem._selection_start_scene
    layer_rows,            \* LayerList rows, top first: the item each row refers to
    layer_selected,        \* rows selected in the LayerList, by item
    layer_current,         \* current row of the LayerList, by item
    current_tool, selection_host, selection_creating,
    selection_drop_active, selection_drop_pos,
    drawing_item, interacting_item,
    undo_stack, redo_stack, group_stack,
    next_action,           \* number of UndoableAction objects constructed so far
    active_plugin_tool,    \* CanvasView._active_plugin_tool
    drag_mode,             \* QGraphicsView.dragMode()
    start_pos,             \* CanvasView._start_pos
    start_rotation,        \* CanvasView._start_rotation, in degrees
    start_scale,           \* CanvasView._start_scale, in tenths
    item_rect,             \* QGraphicsRectItem.rect() of the primitives
    resize_handle,         \* the ResizeHandle under the mouse and its _start_* fields
    thumbnail_cache,       \* the ThumbnailCache of the image library panel
    thumbnail_requests,    \* number of get_thumbnail calls so far
    plugin_manager,        \* the PluginManager: _plugins, _plugin_apis, _settings
    crop_tool,             \* the Plugin object of plugins/crop_tool and its overlays
    last                   \* what the last handler did (observation only)

core_vars == << made, scene_items, item_kind, item_pos, item_rotation, item_scale,
           item_z, item_prop, item_pixmap, image_bytes, item_selected,
           item_handles, selection_overlay, selection_start_scene, layer_rows,
           layer_selected, layer_current, current_tool, selection_host,
           selection_creating, selection_drop_active, selection_drop_pos,
           drawing_item, interacting_item, undo_stack, redo_stack, group_stack,
           next_action, active_plugin_tool, drag_mode, start_pos, start_rotation,
           start_scale, item_rect, resize_handle >>
\* the objects beside the canvas
thumbnail_vars == << thumbnail_cache, thumbnail_requests >>
side_vars == << thumbnail_vars, plugin_manager, crop_tool >>
vars == << core_vars, side_vars, last >>

\* ------------------------------------------------------------------ helpers
Max(S) == CHOOSE m \in S : \A n \in S : n <= m
Min(S) == CHOOSE m \in S : \A n \in S : m <= n
SeqSet(s) == { s[k] : k \in 1..Len(s) }
RECURSIVE Reverse(_)
Reverse(s) == IF s = << >> THEN << >> ELSE Append(Reverse(Tail(s)), Head(s))
RemoveAt(s, k) == SubSeq(s, 1, k - 1) \o SubSeq(s, k + 1, Len(s))
InsertAt(s, k, e) == SubSeq(s, 1, k - 1) \o << e >> \o SubSeq(s, k, Len(s))
RowsOf(rows, i) == { k \in 1..Len(rows) : rows[k] = i }
\* F applied to the value of e: one step of a handler after another.
Then(e, F(_)) == F(e)

\* ------------------------------------------------------------------ bitmaps
\* A pixel is 0 (fully transparent) or an opaque colour 1..MaxColour;
\* colour 1 is opaque black.
Transparent == 0
Black == 1
Pixels == 0..MaxColour
Grid(w, h) == (0..(w - 1)) \X (0..(h - 1))
Bitmap(w, h, f) == [w |-> w, h |-> h, px |-> f]
Flat(w, h, c) == Bitmap(w, h, [p \in Grid(w, h) |-> c])
NullPixmap == Flat(0, 0, Transparent)
\* PNG encoding is lossless: the bytes determine and are determined by the
\* size and the pixels, row by row.
RECURSIVE RowMajor(_, _)
RowMajor(b, n) ==
    IF n = 0 THEN << >>
    ELSE Append(RowMajor(b, n - 1), b.px[<< (n - 1) % b.w, (n - 1) \div b.w >>])
EncodePNG(b) == << "PNG", b.w, b.h >> \o RowMajor(b, b.w * b.h)

\* ------------------------------------------------------------------ image_library_panel.py
MAX_CACHE_SIZE == 500
Paths == 1..MaxPaths
Mtimes == 0..MaxMtime
\* ThumbnailCache.__init__: _cache holds its keys in insertion order, the
\* timer is not running.  seen and ready are transient: the _pending set as
\* _generate_thumbnail finds it and the paths thumbnailReady was emitted for.
NewThumbnailCache ==
    [ cache |-> << >>, pending |-> {}, queue |-> << >>, timer |-> FALSE,
      seen |-> {}, ready |-> << >> ]
\* Faulty variant: the path is queued again while it is waiting.
get_thumbnail_requeues(c, file_path, exists, mtime) ==
    IF ~exists THEN c
    ELSE IF << file_path, mtime >> \in SeqSet(c.cache) THEN c
    ELSE [c EXCEPT !.queue = Append(@, file_path), !.timer = TRUE]
\* get_thumbnail of a path that does or does not exist (or whose stat fails)
\* and has the given modification time
get_thumbnail(c, file_path, exists, mtime) ==
    IF ~exists THEN c
    ELSE IF << file_path, mtime >> \in SeqSet(c.cache) THEN c
    ELSE IF file_path \notin c.pending /\ file_path \notin SeqSet(c.queue)
    THEN [c EXCEPT !.queue = Append(@, file_path), !.timer = TRUE]
    ELSE c
\* The first tenth of the entries leaves a full cache.
Evicted(cache) ==
    IF Len(cache) >= MAX_CACHE_SIZE
    THEN SubSeq(cache, MAX_CACHE_SIZE \div 10 + 1, Len(cache))
    ELSE cache
_generate_thumbnail(c, file_path, exists, mtime, isNull) ==
    IF ~exists \/ << file_path, mtime >> \in SeqSet(c.cache) \/ isNull
    THEN [c EXCEPT !.seen = c.pending]
    ELSE [c EXCEPT !.seen = c.pending,
                   !.cache = Append(Evicted(@), << file_path, mtime >>),
                   !.ready = Append(@, file_path)]
\* The slot of the timer.
_process_queue(c, exists, mtime, isNull) ==
    IF c.queue = << >> THEN [c EXCEPT !.timer = FALSE]
    ELSE [_generate_thumbnail(
              [c EXCEPT !.queue = Tail(@), !.pending = @ \cup { Head(c.queue) }],
              Head(c.queue), exists, mtime, isNull)
            EXCEPT !.pending = @ \ { Head(c.queue) }]
ThumbnailCache_clear(c) == [c EXCEPT !.cache = << >>, !.queue = << >>, !.pending = {}]

\* ------------------------------------------------------------------ plugin_manager.py
PluginIds == 1..MaxPlugins
\* What load_plugin finds on the disk and in the code of the plugin: the first
\* step of the load that fails, or none.
LoadFaults == { "no directory", "bad manifest", "no entry point", "module raises",
                "no Plugin class", "constructor raises", "on_load raises", "none" }
NoDict == [k \in {} |-> 0]
DictSet(d, key, value) == [k \in DOMAIN d \cup { key } |-> IF k = key THEN value ELSE d[k]]
DictDel(d, key) == [k \in DOMAIN d \ { key } |-> d[k]]
LoadedPlugin(enabled, instance, error) ==
    [enabled |-> enabled, instance |-> instance, error |-> error]
\* PluginManager.__init__; _plugin_apis gives the number of actions each
\* PluginAPI has registered.  emitted, returned and cleared are transient: the
\* signals and the result of the call, and whether cleanup() has cleared the
\* active plugin tool of the view.
NewPluginManager ==
    [ _plugins |-> NoDict, _plugin_apis |-> NoDict,
      _settings |-> [k \in PluginIds |-> TRUE],
      emitted |-> << >>, returned |-> "None", cleared |-> FALSE ]
Emit(m, signal, plugin_id) == [m EXCEPT !.emitted = Append(@, << signal, plugin_id >>)]
Return(m, value) == [m EXCEPT !.returned = value]
\* registered is the number of toolbar and menu actions the plugin has
\* registered with its PluginAPI when the load ends.
load_plugin(m, plugin_id, fault, registered) ==
    IF plugin_id \in DOMAIN m._plugins THEN Return(m, "True")
    ELSE IF fault \in { "no directory", "bad manifest" }
    THEN Return(Emit(m, "pluginError", plugin_id), "False")
    ELSE IF ~m._settings[plugin_id]
    THEN Return([m EXCEPT !._plugins =
                     DictSet(@, plugin_id, LoadedPlugin(FALSE, FALSE, FALSE))], "True")
    ELSE IF fault = "no entry point"
    THEN Return(Emit([m EXCEPT !._plugins =
                          DictSet(@, plugin_id, LoadedPlugin(TRUE, FALSE, TRUE))],
                     "pluginError", plugin_id), "False")
    ELSE IF fault = "module raises"
    THEN Return(Emit(m, "pluginError", plugin_id), "False")
    ELSE IF fault \in { "constructor raises", "on_load raises" }
    THEN Return(Emit([m EXCEPT !._plugin_apis = DictSet(@, plugin_id, registered)],
                     "pluginError", plugin_id), "False")
    ELSE Return(Emit([m EXCEPT
                         !._plugin_apis = DictSet(@, plugin_id,
                             IF fault = "no Plugin class" THEN 0 ELSE registered),
                         !._plugins = DictSet(@, plugin_id,
                             LoadedPlugin(TRUE, fault # "no Plugin class", FALSE))],
                     "pluginLoaded", plugin_id), "True")
\* raises: on_unload of the instance raises.
unload_plugin(m, plugin_id, raises) ==
    IF plugin_id \notin DOMAIN m._plugins THEN Return(m, "False")
    ELSE IF m._plugins[plugin_id].instance /\ raises
    THEN Return(Emit(m, "pluginError", plugin_id), "False")
    ELSE Return(Emit([m EXCEPT !._plugin_apis = DictDel(@, plugin_id),
                               !._plugins = DictDel(@, plugin_id),
                               !.cleared = @ \/ plugin_id \in DOMAIN m._plugin_apis],
                     "pluginUnloaded", plugin_id), "True")
reload_plugin(m, plugin_id, raises, fault, registered) ==
    load_plugin(unload_plugin(m, plugin_id, raises), plugin_id, fault, registered)
SetEnabled(m, plugin_id, enabled) ==
    [m EXCEPT !._settings[plugin_id] = enabled,
              !._plugins = IF plugin_id \in DOMAIN @
                           THEN [@ EXCEPT ![plugin_id].enabled = enabled] ELSE @]
enable_plugin(m, plugin_id, enabled, raises, fault, registered) ==
    Return(IF plugin_id \notin DOMAIN m._plugins THEN SetEnabled(m, plugin_id, enabled)
           ELSE IF enabled
           THEN reload_plugin(SetEnabled(m, plugin_id, enabled), plugin_id, raises,
                              fault, registered)
           ELSE unload_plugin(SetEnabled(m, plugin_id, enabled), plugin_id, raises),
           "None")

\* ------------------------------------------------------------------ plugins/crop_tool/plugin.py
\* CropOverlay.__init__; _drag_start_rect is None when dragging is FALSE.
NoCropOverlay ==
    [ present |-> FALSE, rect |-> << 0, 0, 0, 0 >>, dragging |-> FALSE,
      _dragging_handle |-> "None", _drag_start_rect |-> << 0, 0, 0, 0 >>,
      _drag_start_pos |-> << -1, -1 >> ]
CropOverlay(rect) == [NoCropOverlay EXCEPT !.present = TRUE, !.rect = rect]
\* Plugin.__init__.  orphans counts the CropOverlay items in the scene that
\* _crop_overlay no longer refers to; returned is transient, the result of the
\* hook that ran.
NewCropTool ==
    [ _crop_overlay |-> NoCropOverlay, _target_item |-> 0, _crop_mode_active |-> FALSE,
      _drawing_crop |-> FALSE, _draw_start_pos |-> << -1, -1 >>, orphans |-> 0,
      returned |-> FALSE ]

\* ImageLibraryPanel.__init__
SideInit ==
    /\ thumbnail_cache = NewThumbnailCache
    /\ thumbnail_requests = 0
    /\ plugin_manager = NewPluginManager
    /\ crop_tool = NewCropTool

\* ------------------------------------------------------------------ world
NoPoint == << -1, -1 >>
\* _active_plugin_tool = None
NoPlugin == "None"
\* No ResizeHandle is pressed: _start_vector is None.
NoHandle == [item |-> 0, pressed |-> FALSE, center |-> << 0, 0 >>,
             vector |-> << 0, 0 >>, scale |-> 10]
\* SelectionHandles(parent): eight resize handles and, unless the parent says
\* otherwise, a rotate handle, all in the scene of the parent if it has one.
NoHandles == [attached |-> FALSE, resize_handles |-> 0, rotate_handle |-> FALSE]
SelectionHandles(parent_in_scene, supports_rotation_handles) ==
    [attached |-> TRUE, resize_handles |-> IF parent_in_scene THEN 8 ELSE 0,
     rotate_handle |-> parent_in_scene /\ supports_rotation_handles]
\* in_scene counts the SelectionOverlay items of this owner that are in the
\* scene; handles is the attribute a handle set of the overlay would be kept in.
NoOverlay == [present |-> FALSE, rect |-> << 0, 0, 0, 0 >>, selected |-> FALSE,
              visible |-> FALSE, in_scene |-> 0, handles |-> NoHandles]

World ==
    [ made |-> made, scene |-> scene_items, kind |-> item_kind, pos |-> item_pos,
      rot |-> item_rotation, scale |-> item_scale, z |-> item_z, prop |-> item_prop,
      pixmap |-> item_pixmap, bytes |-> image_bytes, sel |-> item_selected,
      handles |-> item_handles, ov |-> selection_overlay,
      start |-> selection_start_scene, rows |-> layer_rows,
      lsel |-> layer_selected, cur |-> layer_current, tool |-> current_tool,
      host |-> selection_host, creating |-> selection_creating,
      drop |-> selection_drop_active, droppos |-> selection_drop_pos,
      drawing |-> drawing_item, interacting |-> interacting_item,
      undo |-> undo_stack, redo |-> redo_stack, group |-> group_stack,
      nact |-> next_action, plugin |-> active_plugin_tool, dragMode |-> drag_mode,
      startPos |-> start_pos, startRotation |-> start_rotation,
      startScale |-> start_scale, rect |-> item_rect, resize |-> resize_handle,
      \* transient, always as below between two handlers
      sceneBlocked |-> FALSE, layerBlocked |-> FALSE, changing |-> FALSE,
      sceneRuns |-> 0, layerRuns |-> 0, calls |-> << >>, emitted |-> << >>,
      added |-> << >>, extracted |-> NoItem, steps |-> << >>, raised |-> FALSE,
      event |-> << >> ]

CommitCore(w) ==
    /\ made' = w.made
    /\ scene_items' = w.scene
    /\ item_kind' = w.kind
    /\ item_pos' = w.pos
    /\ item_rotation' = w.rot
    /\ item_scale' = w.scale
    /\ item_z' = w.z
    /\ item_prop' = w.prop
    /\ item_pixmap' = w.pixmap
    /\ image_bytes' = w.bytes
    /\ item_selected' = w.sel
    /\ item_handles' = w.handles
    /\ selection_overlay' = w.ov
    /\ selection_start_scene' = w.start
    /\ layer_rows' = w.rows
    /\ layer_selected' = w.lsel
    /\ layer_current' = w.cur
    /\ current_tool' = w.tool
    /\ selection_host' = w.host
    /\ selection_creating' = w.creating
    /\ selection_drop_active' = w.drop
    /\ selection_drop_pos' = w.droppos
    /\ drawing_item' = w.drawing
    /\ interacting_item' = w.interacting
    /\ undo_stack' = w.undo
    /\ redo_stack' = w.redo
    /\ group_stack' = w.group
    /\ next_action' = w.nact
    /\ active_plugin_tool' = w.plugin
    /\ drag_mode' = w.dragMode
    /\ start_pos' = w.startPos
    /\ start_rotation' = w.startRotation
    /\ start_scale' = w.startScale
    /\ item_rect' = w.rect
    /\ resize_handle' = w.resize
Commit(w) == CommitCore(w) /\ UNCHANGED side_vars

\* ------------------------------------------------------------------ items
Kinds == { "raster", "vector", "rect", "ellipse", "text" }
\* ItemIsSelectable: a primitive being drawn gets the flag on release only.
Selectable(w, i) == i # w.drawing

\* scene.selectedItems(): graphics items of the layer model / the overlays
SelectedItems(w) == { i \in w.scene : i \in w.sel }
OverlaySelected(w) == { i \in Items : w.ov[i].present /\ w.ov[i].selected }

RECURSIVE on_scene_selection_changed(_), on_layer_selection_changed(_),
          ItemSetSelected(_, _, _), DeselectEach(_, _), SelectEach(_, _),
          SelectRows(_, _)

\* QObject.blockSignals: a blocked sender delivers nothing.
EmitSceneSelectionChanged(w) ==
    IF w.sceneBlocked THEN w ELSE on_scene_selection_changed(w)
EmitLayerSelectionChanged(w) ==
    IF w.layerBlocked THEN w ELSE on_layer_selection_changed(w)

\* SelectionOverlay.setSelected: the overlay class has no itemChange.
OverlaySetSelected(w, i, v) ==
    IF ~w.ov[i].present \/ w.ov[i].selected = v THEN w
    ELSE IF w.changing THEN [w EXCEPT !.ov[i].selected = v]
    ELSE EmitSceneSelectionChanged([w EXCEPT !.ov[i].selected = v])

clearSelectionOverlay(w, i) ==
    LET w1 == IF w.ov[i].present THEN OverlaySetSelected(w, i, FALSE) ELSE w
    IN [w1 EXCEPT !.ov[i] = [NoOverlay EXCEPT !.in_scene =
                                 IF w.ov[i].present THEN w.ov[i].in_scene - 1
                                 ELSE w.ov[i].in_scene],
                  !.start[i] = NoPoint]

\* itemChange(ItemSelectedHasChanged, v) of RasterItem, VectorItem and of the
\* classes patched by add_handles_support.  SelectionHandles._create_handles
\* adds handle items only when the parent is in a scene.
itemChange(w, i, v) ==
    IF v
    THEN [w EXCEPT !.handles[i] =
              IF @ = "none" THEN (IF i \in w.scene THEN "scene" ELSE "empty")
              ELSE @]
    ELSE IF w.kind[i] = "raster"
         THEN clearSelectionOverlay([w EXCEPT !.handles[i] = "none"], i)
         ELSE [w EXCEPT !.handles[i] = "none"]

\* QGraphicsItem.setSelected
SetSelectedFlag(w, i, v) ==
    IF i \in w.scene /\ ~w.changing
    THEN EmitSceneSelectionChanged([w EXCEPT !.sel = IF v THEN @ \cup {i} ELSE @ \ {i}])
    ELSE [w EXCEPT !.sel = IF v THEN @ \cup {i} ELSE @ \ {i}]
ItemSetSelected(w, i, v) ==
    IF (i \in w.sel) = (v /\ Selectable(w, i)) THEN w
    ELSE itemChange(SetSelectedFlag(w, i, v /\ Selectable(w, i)), i,
                    v /\ Selectable(w, i))

DeselectEach(w, S) ==
    IF S = {} THEN w
    ELSE DeselectEach(ItemSetSelected(w, Min(S), FALSE), S \ { Min(S) })
SelectEach(w, S) ==
    IF S = {} THEN w
    ELSE SelectEach(ItemSetSelected(w, Min(S), TRUE), S \ { Min(S) })

\* QGraphicsScene.clearSelection
DeselectOverlays(w, outer) ==
    [w EXCEPT !.changing = outer,
              !.ov = [i \in Items |-> [w.ov[i] EXCEPT !.selected = FALSE]]]
SceneClearSelection(w) ==
    IF ~w.changing /\ SelectedItems(w) \cup OverlaySelected(w) # {}
    THEN EmitSceneSelectionChanged(
             DeselectOverlays(DeselectEach([w EXCEPT !.changing = TRUE],
                                           SelectedItems(w)), w.changing))
    ELSE DeselectOverlays(DeselectEach([w EXCEPT !.changing = TRUE],
                                       SelectedItems(w)), w.changing)

\* QGraphicsScene.addItem / removeItem.  removeItem keeps the item's selected
\* flag and delivers itemChange(ItemSceneChange, None) first.
SceneAddItem(w, i) ==
    IF i \in w.scene THEN w
    ELSE IF i \in w.sel /\ ~w.changing
    THEN EmitSceneSelectionChanged([w EXCEPT !.scene = @ \cup {i}])
    ELSE [w EXCEPT !.scene = @ \cup {i}]
LeaveScene(w, i) ==
    IF i \in w.sel /\ ~w.changing
    THEN EmitSceneSelectionChanged([w EXCEPT !.scene = @ \ {i}])
    ELSE [w EXCEPT !.scene = @ \ {i}]
SceneRemoveItem(w, i) ==
    IF i \notin w.scene THEN w
    ELSE LeaveScene(IF w.kind[i] = "raster" THEN clearSelectionOverlay(w, i) ELSE w, i)

\* ------------------------------------------------------------------ LayerList
\* QListWidget: selection and current row, identified by the row's item.
LayerClearSelection(w) ==
    IF w.lsel = {} THEN w ELSE EmitLayerSelectionChanged([w EXCEPT !.lsel = {}])
LayerRowSetSelected(w, i) ==
    IF i \in w.lsel \/ i \notin SeqSet(w.rows) THEN w
    ELSE EmitLayerSelectionChanged([w EXCEPT !.lsel = @ \cup {i}])
SelectRows(w, S) ==
    IF S = {} THEN w
    ELSE SelectRows(LayerRowSetSelected(w, Min(S)), S \ { Min(S) })
\* setCurrentRow / setCurrentItem: in ExtendedSelection mode the row becomes
\* the current one and the only selected one.
LayerSetCurrent(w, i) ==
    IF w.lsel = {i} THEN [w EXCEPT !.cur = i]
    ELSE EmitLayerSelectionChanged([w EXCEPT !.cur = i, !.lsel = {i}])
\* takeItem(k): the current row moves to a neighbour, the selection loses the row.
CurrentAfterTake(w, k) ==
    IF w.cur # w.rows[k] THEN w.cur
    ELSE IF k < Len(w.rows) THEN w.rows[k + 1]
    ELSE IF k > 1 THEN w.rows[k - 1]
    ELSE NoItem
LayerTakeItem(w, k) ==
    IF w.rows[k] \in w.lsel
    THEN EmitLayerSelectionChanged(
             [w EXCEPT !.rows = RemoveAt(@, k), !.cur = CurrentAfterTake(w, k),
                       !.lsel = @ \ { w.rows[k] }])
    ELSE [w EXCEPT !.rows = RemoveAt(@, k), !.cur = CurrentAfterTake(w, k)]
LayerInsertItem(w, k, i) == [w EXCEPT !.rows = InsertAt(@, k, i)]

\* Faulty variant: the z-values are left as they were.
update_z_orders_stale(w) == w
update_z_orders(w) ==
    LET count == Len(w.rows)
    IN [w EXCEPT !.z = [i \in Items |->
                          IF RowsOf(w.rows, i) = {} THEN w.z[i]
                          ELSE count - (Max(RowsOf(w.rows, i)) - 1)]]

graphics_items(w) == w.rows

RECURSIVE TakeRows(_, _, _)
TakeRows(w, k, items) ==
    IF k = 0 THEN w
    ELSE TakeRows(IF w.rows[k] \in items THEN LayerTakeItem(w, k) ELSE w, k - 1, items)
remove_graphics_items(w, items) ==
    IF items = {} THEN w
    ELSE Then(TakeRows(w, Len(w.rows), items), LAMBDA w1 :
              IF Len(w1.rows) # Len(w.rows) THEN update_z_orders(w1) ELSE w1)

\* ------------------------------------------------------------------ selection sync
\* Faulty variant: the scene's signals are not blocked.
on_layer_selection_changed_unblocked(w) ==
    Then(SceneClearSelection([w EXCEPT !.layerRuns = @ + 1]),
         LAMBDA w2 : SelectEach(w2, w2.lsel))
on_layer_selection_changed(w) ==
    Then(SceneClearSelection([w EXCEPT !.sceneBlocked = TRUE, !.layerRuns = @ + 1]),
         LAMBDA w2 : [SelectEach(w2, w2.lsel) EXCEPT !.sceneBlocked = FALSE])

on_scene_selection_changed(w) ==
    Then(LayerClearSelection([w EXCEPT !.layerBlocked = TRUE, !.sceneRuns = @ + 1]),
         LAMBDA w2 : [SelectRows(w2, SeqSet(w2.rows) \cap SelectedItems(w2))
                         EXCEPT !.layerBlocked = FALSE])

\* ------------------------------------------------------------------ MainWindow
add_item_to_canvas(w, i) ==
    LET w1 == SceneAddItem(w, i)
        w2 == update_z_orders(LayerInsertItem(w1, 1, i))
        w3 == [w2 EXCEPT !.sceneBlocked = TRUE, !.layerBlocked = TRUE]
        w4 == LayerClearSelection(SceneClearSelection(w3))
        w5 == LayerSetCurrent(LayerRowSetSelected(ItemSetSelected(w4, i, TRUE), i), i)
    IN [w5 EXCEPT !.sceneBlocked = FALSE, !.layerBlocked = FALSE]

currentRow(w) == IF w.cur = NoItem THEN 0 ELSE Min(RowsOf(w.rows, w.cur))
MoveRow(w, row, new_row) ==
    update_z_orders(LayerSetCurrent(
        LayerInsertItem(LayerTakeItem(w, row), new_row, w.rows[row]), w.rows[row]))
\* Faulty variant: the entry moves and the z-values stay as they were.
adjust_layer_z_keeps_z(w, delta) ==
    IF currentRow(w) = 0 THEN w
    ELSE IF currentRow(w) + delta < 1 \/ currentRow(w) + delta > Len(w.rows) THEN w
    ELSE [MoveRow(w, currentRow(w), currentRow(w) + delta) EXCEPT !.z = w.z]
adjust_layer_z(w, delta) ==
    IF currentRow(w) = 0 THEN w
    ELSE IF currentRow(w) + delta < 1 \/ currentRow(w) + delta > Len(w.rows) THEN w
    ELSE MoveRow(w, currentRow(w), currentRow(w) + delta)

\* LayerList.dropEvent: Qt's InternalMove moves the dragged row, then the
\* z-values are reassigned.
dropEvent(w, from, to) ==
    LET item == w.rows[from]
        w1 == [w EXCEPT !.rows = InsertAt(RemoveAt(@, from), to, item)]
    IN update_z_orders(w1)

\* ------------------------------------------------------------------ construction
Coords == { 2 * k : k \in 0..MaxCoord }
Points == Coords \X Coords
Tools == { "SELECT", "MOVE", "ROTATE", "SCALE", "RECTANGLE", "ELLIPSE", "TEXT",
           "ALIGN_GRID", "SELECTION" }
\* The bitmaps a pasted image is drawn from: 2 x 2 pixels.
Palette == { Bitmap(2, 2, f) : f \in [Grid(2, 2) -> Pixels] }

\* RasterItem.__init__ and the constructors of the other item classes
NewItem(w, kind, p, bitmap) ==
    [w EXCEPT !.made = @ + 1, !.kind[w.made + 1] = kind, !.pos[w.made + 1] = p,
              !.pixmap[w.made + 1] = bitmap,
              !.bytes[w.made + 1] = IF kind = "raster" THEN EncodePNG(bitmap)
                                    ELSE << >>]

\* The state of the overlay of the view's selection host.
OverlayPhase ==
    IF selection_host = NoItem THEN "NONE"
    ELSE IF ~selection_overlay[selection_host].present THEN "NONE"
    ELSE IF selection_creating THEN "CREATING"
    ELSE "LOCKED"

\* What a handler did: the handlers and the UndoableAction methods it ran,
\* the signals it emitted, the item endSelection returned, and the stacks of
\* the UndoManager, the tool, the selection host and its overlay as they were
\* when it began.
Obs(op, i, w) ==
    [ op |-> op, item |-> i, sceneRuns |-> w.sceneRuns, layerRuns |-> w.layerRuns,
      calls |-> w.calls, emitted |-> w.emitted, added |-> w.added,
      extracted |-> w.extracted, before |-> undo_stack, open |-> group_stack,
      tool |-> current_tool, host |-> selection_host, phase |-> OverlayPhase,
      steps |-> w.steps, raised |-> w.raised, plugin |-> active_plugin_tool,
      flags |-> << selection_creating, selection_drop_active >>,
      event |-> w.event, scale |-> item_scale, handle |-> resize_handle ]

EmptyWorld ==
    [ made |-> 0, scene |-> {}, kind |-> [i \in Items |-> "none"],
      pos |-> [i \in Items |-> << 0, 0 >>], rot |-> [i \in Items |-> 0],
      scale |-> [i \in Items |-> 10], z |-> [i \in Items |-> 0],
      prop |-> [i \in Items |-> 0], pixmap |-> [i \in Items |-> NullPixmap],
      bytes |-> [i \in Items |-> << >>], sel |-> {},
      handles |-> [i \in Items |-> "none"], ov |-> [i \in Items |-> NoOverlay],
      start |-> [i \in Items |-> NoPoint], rows |-> << >>, lsel |-> {},
      cur |-> NoItem, tool |-> "SELECT", host |-> NoItem, creating |-> FALSE,
      drop |-> FALSE, droppos |-> NoPoint, drawing |-> NoItem,
      interacting |-> NoItem, undo |-> << >>, redo |-> << >>, group |-> << >>,
      nact |-> 0, plugin |-> NoPlugin, dragMode |-> "RubberBandDrag",
      startPos |-> NoPoint, startRotation |-> 0, startScale |-> 10,
      rect |-> [i \in Items |-> << 0, 0, 0, 0 >>],
      resize |-> NoHandle, sceneBlocked |-> FALSE, layerBlocked |-> FALSE,
      changing |-> FALSE, sceneRuns |-> 0, layerRuns |-> 0, calls |-> << >>,
      emitted |-> << >>, added |-> << >>, extracted |-> NoItem, steps |-> << >>,
      raised |-> FALSE, event |-> << >> ]

\* The variables hold world w.
Is(w) ==
    /\ made = w.made
    /\ scene_items = w.scene
    /\ item_kind = w.kind
    /\ item_pos = w.pos
    /\ item_rotation = w.rot
    /\ item_scale = w.scale
    /\ item_z = w.z
    /\ item_prop = w.prop
    /\ item_pixmap = w.pixmap
    /\ image_bytes = w.bytes
    /\ item_selected = w.sel
    /\ item_handles = w.handles
    /\ selection_overlay = w.ov
    /\ selection_start_scene = w.start
    /\ layer_rows = w.rows
    /\ layer_selected = w.lsel
    /\ layer_current = w.cur
    /\ current_tool = w.tool
    /\ selection_host = w.host
    /\ selection_creating = w.creating
    /\ selection_drop_active = w.drop
    /\ selection_drop_pos = w.droppos
    /\ drawing_item = w.drawing
    /\ interacting_item = w.interacting
    /\ undo_stack = w.undo
    /\ redo_stack = w.redo
    /\ group_stack = w.group
    /\ next_action = w.nact
    /\ active_plugin_tool = w.plugin
    /\ drag_mode = w.dragMode
    /\ start_pos = w.startPos
    /\ start_rotation = w.startRotation
    /\ start_scale = w.startScale
    /\ item_rect = w.rect
    /\ resize_handle = w.resize

\* MainWindow.__init__: an empty scene, the SELECT tool, empty history.
Init == Is(EmptyWorld) /\ SideInit /\ last = Obs("init", NoItem, EmptyWorld)

\* A handler has run to completion and left world w.
Done(op, i, w) == Commit(w) /\ last' = Obs(op, i, w)

\* ------------------------------------------------------------------ layer actions
\* CanvasView.paste_at_position: a new item is built and announced with
\* itemAdded, which MainWindow.add_item_to_canvas receives.
itemAdded(w, i) == add_item_to_canvas([w EXCEPT !.added = Append(@, i)], i)
paste_at_position(w, kind, p, bitmap) ==
    Then(NewItem(w, kind, p, bitmap), LAMBDA w1 :
         itemAdded(IF kind = "text" THEN SceneAddItem(w1, w1.made) ELSE w1, w1.made))

\* Where and what the specifications without a mouse paste.
Origin == { << 0, 0 >> }
Opaque == { Flat(2, 1, Black) }
PasteAtPosition(limit, kinds, points, bitmaps) ==
    \E kind \in kinds, p \in points, bitmap \in bitmaps :
        /\ made < limit
        /\ Done("add_item_to_canvas", made + 1,
                paste_at_position(World, kind, p, bitmap))

AdjustLayerZ ==
    \E delta \in { -1, 1 } :
        /\ Done("adjust_layer_z", layer_current, adjust_layer_z(World, delta))

\* The toolbar buttons Bring Forward and Send Backward.
BringForward ==
    /\ Done("bring_forward", layer_current, adjust_layer_z(World, -1))
SendBackward ==
    /\ Done("send_backward", layer_current, adjust_layer_z(World, 1))

LayerDropEvent ==
    \E from \in 1..Len(layer_rows), to \in 1..Len(layer_rows) :
        /\ from # to
        /\ Done("dropEvent", layer_rows[from], dropEvent(World, from, to))

\* The user clicks a row of the layer list.
LayerSelectRow ==
    \E k \in 1..Len(layer_rows) :
        Done("layer_select", layer_rows[k], LayerSetCurrent(World, layer_rows[k]))

\* ------------------------------------------------------------------ undo_manager.py
\* An UndoableAction object: its class, its identity, the item it acts on and
\* the state its constructor captured.
MkAction(kind, id, item, old, new, desc) ==
    [ kind |-> kind, id |-> id, item |-> item, old |-> old, new |-> new,
      children |-> << >>, desc |-> desc ]
ActionGroup(id, name) == MkAction("Group", id, NoItem, 0, 0, name)
AddItemAction(id, item) == MkAction("Add", id, item, 0, 0, "Add item")
\* RemoveItemAction.__init__ captures item.pos() and item.zValue()
RemoveItemAction(w, id, item) ==
    MkAction("Remove", id, item, w.pos[item], w.z[item], "Delete item")
MoveItemAction(id, item, old_pos, new_pos) ==
    MkAction("Move", id, item, old_pos, new_pos, "Move")
TransformItemAction(id, item, old_rotation, old_scale, new_rotation, new_scale) ==
    MkAction("Transform", id, item, << old_rotation, old_scale >>,
             << new_rotation, new_scale >>, "Transform")
ImageEditAction(id, item, old_pixmap, new_pixmap) ==
    MkAction("ImageEdit", id, item, old_pixmap, new_pixmap, "Edit image")
PropertyChangeAction(id, obj, old_value, new_value) ==
    MkAction("Property", id, obj, old_value, new_value, "Change prop")

Called(w, what, a) == [w EXCEPT !.calls = Append(@, << what, a.id >>)]

RECURSIVE ActionExecute(_, _), ActionUndo(_, _), ExecuteAll(_, _), UndoAll(_, _)

AddItemAction_execute(w, a) ==
    IF a.item \notin w.scene THEN SceneAddItem(w, a.item) ELSE w
\* Faulty variant: the item leaves the scene, its layer row stays.
AddItemAction_undo_scene_only(w, a) ==
    IF a.item \in w.scene THEN SceneRemoveItem(w, a.item) ELSE w
AddItemAction_undo(w, a) ==
    IF a.item \in w.scene
    THEN remove_graphics_items(SceneRemoveItem(w, a.item), { a.item })
    ELSE w
RemoveItemAction_execute(w, a) ==
    IF a.item \in w.scene
    THEN remove_graphics_items(SceneRemoveItem(w, a.item), { a.item })
    ELSE w
RemoveItemAction_undo(w, a) ==
    IF a.item \notin w.scene
    THEN [SceneAddItem(w, a.item) EXCEPT !.pos[a.item] = a.old, !.z[a.item] = a.new]
    ELSE w
SetPixmap(w, i, bitmap) ==
    [w EXCEPT !.pixmap[i] = bitmap,
              !.bytes[i] = IF w.kind[i] = "raster" THEN EncodePNG(bitmap) ELSE @]
\* CropAction of the crop tool: the pixmap and the position of the item.
CropAction(id, item, old_pixmap, new_pixmap, old_pos, new_pos) ==
    MkAction("Crop", id, item, << old_pixmap, old_pos >>, << new_pixmap, new_pos >>,
             "Crop Image")
CropAction_execute(w, a) == [SetPixmap(w, a.item, a.new[1]) EXCEPT !.pos[a.item] = a.new[2]]
CropAction_undo(w, a) == [SetPixmap(w, a.item, a.old[1]) EXCEPT !.pos[a.item] = a.old[2]]
ActionGroup_execute(w, a) == ExecuteAll(w, a.children)
\* Faulty variant: the children are undone in the order they were executed.
ActionGroup_undo_forward(w, a) == UndoAll(w, a.children)
ActionGroup_undo(w, a) == UndoAll(w, Reverse(a.children))

MoveItemAction_execute(w, a) == [w EXCEPT !.pos[a.item] = a.new]
MoveItemAction_undo(w, a) == [w EXCEPT !.pos[a.item] = a.old]
TransformItemAction_execute(w, a) ==
    [w EXCEPT !.rot[a.item] = a.new[1], !.scale[a.item] = a.new[2]]
TransformItemAction_undo(w, a) ==
    [w EXCEPT !.rot[a.item] = a.old[1], !.scale[a.item] = a.old[2]]
ImageEditAction_execute(w, a) == SetPixmap(w, a.item, a.new)
ImageEditAction_undo(w, a) == SetPixmap(w, a.item, a.old)
PropertyChangeAction_execute(w, a) == [w EXCEPT !.prop[a.item] = a.new]
PropertyChangeAction_undo(w, a) == [w EXCEPT !.prop[a.item] = a.old]

ActionExecute(w, a) ==
    CASE a.kind = "Add" -> AddItemAction_execute(Called(w, "execute", a), a)
      [] a.kind = "Remove" -> RemoveItemAction_execute(Called(w, "execute", a), a)
      [] a.kind = "Move" -> MoveItemAction_execute(Called(w, "execute", a), a)
      [] a.kind = "Transform" ->
             TransformItemAction_execute(Called(w, "execute", a), a)
      [] a.kind = "ImageEdit" -> ImageEditAction_execute(Called(w, "execute", a), a)
      [] a.kind = "Property" ->
             PropertyChangeAction_execute(Called(w, "execute", a), a)
      [] a.kind = "Crop" -> CropAction_execute(Called(w, "execute", a), a)
      [] a.kind = "Group" -> ActionGroup_execute(w, a)
ActionUndo(w, a) ==
    CASE a.kind = "Add" -> AddItemAction_undo(Called(w, "undo", a), a)
      [] a.kind = "Remove" -> RemoveItemAction_undo(Called(w, "undo", a), a)
      [] a.kind = "Move" -> MoveItemAction_undo(Called(w, "undo", a), a)
      [] a.kind = "Transform" -> TransformItemAction_undo(Called(w, "undo", a), a)
      [] a.kind = "ImageEdit" -> ImageEditAction_undo(Called(w, "undo", a), a)
      [] a.kind = "Property" -> PropertyChangeAction_undo(Called(w, "undo", a), a)
      [] a.kind = "Crop" -> CropAction_undo(Called(w, "undo", a), a)
      [] a.kind = "Group" -> ActionGroup_undo(w, a)
ExecuteAll(w, as) ==
    IF as = << >> THEN w ELSE ExecuteAll(ActionExecute(w, Head(as)), Tail(as))
UndoAll(w, as) ==
    IF as = << >> THEN w ELSE UndoAll(ActionUndo(w, Head(as)), Tail(as))

\* UndoManager
can_undo(w) == Len(w.undo) > 0
can_redo(w) == Len(w.redo) > 0
undo_description(w) == IF w.undo # << >> THEN w.undo[Len(w.undo)].desc ELSE ""
redo_description(w) == IF w.redo # << >> THEN w.redo[Len(w.redo)].desc ELSE ""
\* Faulty variant: nothing is emitted.
_emit_state_changed_silent(w) == w
_emit_state_changed(w) ==
    [w EXCEPT !.emitted = Append(@, << can_undo(w), can_redo(w),
                                       undo_description(w), redo_description(w) >>)]
RECURSIVE PopOldest(_)
PopOldest(stack) == IF Len(stack) > MaxHistory THEN PopOldest(Tail(stack)) ELSE stack
\* Faulty variant: the newest entries are the ones discarded.
_trim_history_newest(w) == [w EXCEPT !.undo = SubSeq(@, 1, Min({ Len(@), MaxHistory }))]
_trim_history(w) == [w EXCEPT !.undo = PopOldest(@)]

push(w, action) ==
    IF w.group # << >>
    THEN [w EXCEPT !.group[Len(w.group)].children = Append(@, action)]
    ELSE _emit_state_changed(_trim_history(
             [w EXCEPT !.undo = Append(@, action), !.redo = << >>]))
\* after action.execute(), execute goes on exactly as push does
execute(w, action) == push(ActionExecute(w, action), action)
Top(stack) == stack[Len(stack)]
Pop(stack) == SubSeq(stack, 1, Len(stack) - 1)
undo(w) ==
    IF w.undo = << >> THEN w
    ELSE _emit_state_changed(
             [ActionUndo([w EXCEPT !.undo = Pop(@)], Top(w.undo))
                 EXCEPT !.redo = Append(@, Top(w.undo))])
redo(w) ==
    IF w.redo = << >> THEN w
    ELSE _emit_state_changed(
             [ActionExecute([w EXCEPT !.redo = Pop(@)], Top(w.redo))
                 EXCEPT !.undo = Append(@, Top(w.redo))])
begin_group(w, name) ==
    [w EXCEPT !.group = Append(@, ActionGroup(w.nact + 1, name)), !.nact = @ + 1]
\* Faulty variant: the group is put on the undo stack whether or not it has
\* children.
end_group_keeps_empty(w) ==
    IF w.group = << >> THEN w
    ELSE _emit_state_changed(_trim_history(
             [w EXCEPT !.group = Pop(@), !.undo = Append(@, Top(w.group)),
                       !.redo = << >>]))
end_group(w) ==
    IF w.group = << >> THEN w
    ELSE IF Top(w.group).children # << >>
    THEN _emit_state_changed(_trim_history(
             [w EXCEPT !.group = Pop(@), !.undo = Append(@, Top(w.group)),
                       !.redo = << >>]))
    ELSE [w EXCEPT !.group = Pop(@)]
clear(w) ==
    _emit_state_changed([w EXCEPT !.undo = << >>, !.redo = << >>, !.group = << >>])

\* ------------------------------------------------------------------ delete / flatten
_cancel_selection_mode(w) ==
    LET w1 == IF w.host # NoItem THEN clearSelectionOverlay(w, w.host) ELSE w
    IN [w1 EXCEPT !.host = NoItem, !.creating = FALSE, !.drop = FALSE,
                  !.droppos = NoPoint]

handle_items_deleted(w, deleted_items) ==
    IF deleted_items = {} THEN w
    ELSE LET w1 == IF w.host # NoItem /\ w.host \in deleted_items
                   THEN _cancel_selection_mode(w) ELSE w
         IN [w1 EXCEPT !.interacting = IF @ \in deleted_items THEN NoItem ELSE @,
                       !.drawing = IF @ \in deleted_items THEN NoItem ELSE @]

_selected_layer_items(w) ==
    IF w.rows = << >> THEN {}
    ELSE (SelectedItems(w) \cap SeqSet(w.rows)) \cup (w.lsel \cap SeqSet(w.rows))

RECURSIVE RemoveEach(_, _)
RemoveOne(w, i) ==
    SceneRemoveItem(
        [(IF w.kind[i] = "raster" THEN clearSelectionOverlay(w, i) ELSE w)
            EXCEPT !.handles[i] = "none"], i)
RemoveEach(w, items) ==
    IF items = {} THEN w
    ELSE RemoveEach(RemoveOne(w, Min(items)), items \ { Min(items) })

ClearBoth(w, clear_selection) ==
    IF clear_selection THEN LayerClearSelection(SceneClearSelection(w)) ELSE w
_remove_items(w, items, clear_selection) ==
    IF items = {} THEN w
    ELSE handle_items_deleted(
             ClearBoth(
                 [remove_graphics_items(
                      RemoveEach([w EXCEPT !.sceneBlocked = TRUE,
                                           !.layerBlocked = TRUE], items), items)
                     EXCEPT !.sceneBlocked = FALSE, !.layerBlocked = FALSE],
                 clear_selection),
             items)

delete_selected_items(w) == _remove_items(w, _selected_layer_items(w), TRUE)

\* The render of the bounding union is not computed pixel by pixel: the new
\* raster item gets a 2 x 1 opaque bitmap.  Every item of the model has a
\* non-empty bounding rect.
_flatten_items(w, chosen) ==
    IF chosen \cap SeqSet(w.rows) = {} THEN w
    ELSE ItemSetSelected(
             SceneClearSelection(
                 _remove_items(
                     itemAdded(NewItem(w, "raster", << 0, 0 >>, Flat(2, 1, Black)),
                               w.made + 1),
                     chosen \cap SeqSet(w.rows), FALSE)),
             w.made + 1, TRUE)
flatten_selected(w) == _flatten_items(w, _selected_layer_items(w))
flatten_all(w) == _flatten_items(w, SeqSet(graphics_items(w)))

DeleteSelectedItems ==
    /\ Done("delete_selected_items", NoItem, delete_selected_items(World))

Flatten(limit) ==
    \E all \in BOOLEAN :
        /\ made < limit
        /\ Done("flatten", NoItem,
                IF all THEN flatten_all(World) ELSE flatten_selected(World))

\* ------------------------------------------------------------------ undo actions
\* A plugin builds an action for an existing item, capturing the item's
\* present state as the old state, and hands it to PluginAPI.execute_undoable.
NewPos(v) == << v, 0 >>
NewRotation(v) == 90 * v
NewScale(v) == 10 * v
NewPixmap(v) == Flat(2, 1, v)
MakeAction(w, kind, id, i, v) ==
    CASE kind = "Add" -> AddItemAction(id, i)
      [] kind = "Remove" -> RemoveItemAction(w, id, i)
      [] kind = "Move" -> MoveItemAction(id, i, w.pos[i], NewPos(v))
      [] kind = "Transform" ->
             TransformItemAction(id, i, w.rot[i], w.scale[i], NewRotation(v),
                                 NewScale(v))
      [] kind = "ImageEdit" -> ImageEditAction(id, i, w.pixmap[i], NewPixmap(v))
      [] kind = "Property" -> PropertyChangeAction(id, i, w.prop[i], v)
\* The same for an edit that was already applied: the new state is the
\* item's present state.
MakeApplied(w, kind, id, i, v) ==
    CASE kind = "Move" -> MoveItemAction(id, i, NewPos(v), w.pos[i])
      [] kind = "Transform" ->
             TransformItemAction(id, i, NewRotation(v), NewScale(v), w.rot[i],
                                 w.scale[i])
      [] kind = "Property" -> PropertyChangeAction(id, i, v, w.prop[i])

Fits(w, kind, i) == kind = "ImageEdit" => w.kind[i] = "raster"

ExecuteOf(kinds, vals, limit) ==
    \E kind \in kinds, i \in 1..made, v \in vals :
        /\ next_action < limit
        /\ Fits(World, kind, i)
        /\ Done("execute", next_action + 1,
                execute([World EXCEPT !.nact = @ + 1],
                        MakeAction(World, kind, next_action + 1, i, v)))
PushOf(kinds, vals, limit) ==
    \E kind \in kinds, i \in 1..made, v \in vals :
        /\ next_action < limit
        /\ Done("push", next_action + 1,
                push([World EXCEPT !.nact = @ + 1],
                     MakeApplied(World, kind, next_action + 1, i, v)))
Undo ==
    /\ Done("undo", IF undo_stack = << >> THEN 0 ELSE Top(undo_stack).id, undo(World))
Redo ==
    /\ Done("redo", IF redo_stack = << >> THEN 0 ELSE Top(redo_stack).id, redo(World))
ExecuteItemAction ==
    /\ ExecuteOf({ "Add", "Remove" }, { 1 }, MaxItemOps)

\* ------------------------------------------------------------------ history
ExecuteEdit ==
    /\ ExecuteOf({ "Move" }, { 1 }, MaxOps)
PushEdit ==
    /\ PushOf({ "Property" }, { 1 }, MaxOps)
BeginGroup ==
    /\ next_action < MaxOps
    /\ Len(group_stack) < MaxGroupDepth
    /\ Done("begin_group", next_action + 1, begin_group(World, "Group"))
EndGroup ==
    /\ Done("end_group", IF group_stack = << >> THEN 0 ELSE Top(group_stack).id,
            end_group(World))
Clear ==
    /\ Done("clear", 0, clear(World))

\* ------------------------------------------------------------------ round trip
ActionKinds == { "Add", "Remove", "Move", "Transform", "ImageEdit", "Property" }
\* The state C2 calls observable.
Observable(w) ==
    [ scene |-> w.scene, rows |-> w.rows, pos |-> w.pos, rot |-> w.rot,
      scale |-> w.scale, z |-> w.z, pixmap |-> w.pixmap ]
\* An ActionGroup the caller fills with two actions before handing it over.
MakeGroup(w, id, k1, k2, i, v) ==
    [ActionGroup(id, "Group") EXCEPT
        !.children = << MakeAction(w, k1, id + 1, i, v), MakeAction(w, k2, id + 2, i, v) >>]
Tracked(op, id, kinds, armed, pre, post, w) ==
    /\ Commit(w)
    /\ last' = [ op |-> op, item |-> id, kinds |-> kinds, armed |-> armed,
                 pre |-> pre, post |-> IF op = "execute" THEN Observable(w) ELSE post ]
ExecuteTracked ==
    \E kind \in ActionKinds, i \in 1..made, v \in 1..2 :
        /\ next_action < MaxItemOps
        /\ Fits(World, kind, i)
        /\ Tracked("execute", next_action + 1, { kind }, TRUE, Observable(World), << >>,
                   execute([World EXCEPT !.nact = @ + 1],
                           MakeAction(World, kind, next_action + 1, i, v)))
ExecuteGroupTracked ==
    \E k1 \in ActionKinds, k2 \in ActionKinds, i \in 1..made :
        /\ next_action < MaxItemOps
        /\ k1 # k2
        /\ Fits(World, k1, i) /\ Fits(World, k2, i)
        /\ Tracked("execute", next_action + 1, { k1, k2 }, TRUE, Observable(World), << >>,
                   execute([World EXCEPT !.nact = @ + 3],
                           MakeGroup(World, next_action + 1, k1, k2, i, 1)))
UndoTracked ==
    /\ undo_stack # << >>
    /\ Tracked("undo", Top(undo_stack).id,
               IF last.op = "execute" THEN last.kinds ELSE {},
               last.op = "execute",
               IF last.op = "execute" THEN last.pre ELSE << >>,
               IF last.op = "execute" THEN last.post ELSE << >>, undo(World))
RedoTracked ==
    /\ redo_stack # << >>
    /\ Tracked("redo", Top(redo_stack).id,
               IF last.op = "undo" THEN last.kinds ELSE {},
               last.op = "undo" /\ last.armed,
               IF last.op = "undo" THEN last.pre ELSE << >>,
               IF last.op = "undo" THEN last.post ELSE << >>, redo(World))

\* ------------------------------------------------------------------ geometry
\* A QRectF is << left, top, right, bottom >>, in quarter pixels.
NullRect == << 0, 0, 0, 0 >>
Normalized(p, q) ==
    << Min({ p[1], q[1] }), Min({ p[2], q[2] }), Max({ p[1], q[1] }), Max({ p[2], q[2] }) >>
IsEmpty(rc) == rc[3] <= rc[1] \/ rc[4] <= rc[2]
Overlap(a, b) ==
    << Max({ a[1], b[1] }), Max({ a[2], b[2] }), Min({ a[3], b[3] }), Min({ a[4], b[4] }) >>
\* QRectF.intersected: the null rectangle when the two do not overlap.
Intersected(a, b) ==
    IF IsEmpty(a) \/ IsEmpty(b) \/ IsEmpty(Overlap(a, b)) THEN NullRect
    ELSE Overlap(a, b)
Contains(rc, p) == rc[1] <= p[1] /\ p[1] <= rc[3] /\ rc[2] <= p[2] /\ p[2] <= rc[4]
\* QRectF.center; exact, the corners of an overlay being mouse points.
RectCenter(rc) == << (rc[1] + rc[3]) \div 2, (rc[2] + rc[4]) \div 2 >>
\* QRectF.toAlignedRect: the smallest pixel rectangle around rc, as
\* << x0, y0, x1, y1 >> with x1 and y1 excluded.
toAlignedRect(rc) ==
    << rc[1] \div 4, rc[2] \div 4, (rc[3] + 3) \div 4, (rc[4] + 3) \div 4 >>
\* QRectF.center().toPoint(): the pixel coordinates nearest to the centre,
\* halves rounded up.
CenterPoint(rc) == << (rc[1] + rc[3] + 4) \div 8, (rc[2] + rc[4] + 4) \div 8 >>
InRect(rc, p) == rc[1] <= p[1] /\ p[1] < rc[3] /\ rc[2] <= p[2] /\ p[2] < rc[4]

\* QImage.copy: pixels outside the image are transparent.
PixelAt(b, x, y) == IF << x, y >> \in Grid(b.w, b.h) THEN b.px[<< x, y >>] ELSE Transparent
copy(b, rc) ==
    Bitmap(rc[3] - rc[1], rc[4] - rc[2],
           [p \in Grid(rc[3] - rc[1], rc[4] - rc[2]) |->
               PixelAt(b, p[1] + rc[1], p[2] + rc[2])])
\* QImage.pixelColor: out of range it returns an invalid QColor, and what
\* painting with an invalid colour does is not defined.
pixelColor(b, p, invalid) == IF p \in Grid(b.w, b.h) THEN b.px[p] ELSE invalid
\* QPainter.fillRect under CompositionMode_Clear and under the default
\* CompositionMode_SourceOver, where a fully transparent colour changes nothing.
fillRect(b, rc, mode, colour) ==
    Bitmap(b.w, b.h,
           [p \in Grid(b.w, b.h) |->
               IF ~InRect(rc, p) THEN b.px[p]
               ELSE IF mode = "Clear" THEN Transparent
               ELSE IF colour = Transparent THEN b.px[p]
               ELSE colour])

\* ------------------------------------------------------------------ SelectionOverlay
set_scene_rect(w, i, rc) == [w EXCEPT !.ov[i].rect = rc]
scene_rect(w, i) == w.ov[i].rect

\* RasterItem: the overlay protocol
startSelectionOverlay(w, i, p) ==
    Then(clearSelectionOverlay(w, i), LAMBDA w1 :
         IF i \notin w1.scene THEN w1
         ELSE OverlaySetSelected(
                  set_scene_rect(
                      [w1 EXCEPT !.start[i] = p,
                                 !.ov[i] = [present |-> TRUE, rect |-> NullRect,
                                            selected |-> FALSE, visible |-> TRUE,
                                            in_scene |-> w1.ov[i].in_scene + 1,
                                            handles |-> NoHandles]],
                      i, Normalized(p, p)),
                  i, TRUE))
updateSelectionOverlay(w, i, p) ==
    IF ~w.ov[i].present \/ w.start[i] = NoPoint THEN w
    ELSE set_scene_rect(w, i, Normalized(w.start[i], p))
lockSelectionOverlay(w, i) == [w EXCEPT !.start[i] = NoPoint]
hasSelectionOverlay(w, i) == w.ov[i].present
activateSelectionOverlay(w, i) ==
    IF w.ov[i].present THEN OverlaySetSelected(w, i, TRUE) ELSE w

\* mapFromScene of an unrotated, unscaled item
mapFromScene(w, i, p) == << p[1] - w.pos[i][1], p[2] - w.pos[i][2] >>
pix_rect(w, i) == << 0, 0, 4 * w.pixmap[i].w, 4 * w.pixmap[i].h >>
LocalRect(w, i) ==
    Normalized(mapFromScene(w, i, << scene_rect(w, i)[1], scene_rect(w, i)[2] >>),
               mapFromScene(w, i, << scene_rect(w, i)[3], scene_rect(w, i)[4] >>))
\* The clipped local rectangle, or the null rectangle for None.
_selection_rects(w, i) ==
    IF ~w.ov[i].present THEN NullRect
    ELSE Intersected(LocalRect(w, i), pix_rect(w, i))

FillModes == { "TRANSPARENT", "AUTO_FILL" }
\* The base image after the painter has filled the selected pixels.
BaseImage(w, i, fill_mode, invalid) ==
    IF fill_mode = "TRANSPARENT"
    THEN fillRect(w.pixmap[i], toAlignedRect(_selection_rects(w, i)), "Clear", Transparent)
    ELSE fillRect(w.pixmap[i], toAlignedRect(_selection_rects(w, i)), "SourceOver",
                  pixelColor(w.pixmap[i], CenterPoint(_selection_rects(w, i)), invalid))
\* Faulty variant: the original is repainted whatever remove_original says.
RemoveOriginal_unconditional(w, i, fill_mode, remove_original, invalid) ==
    SetPixmap(w, i, BaseImage(w, i, fill_mode, invalid))
\* endSelection, the branch on remove_original: setPixmap and updateImageBytes
RemoveOriginal(w, i, fill_mode, remove_original, invalid) ==
    IF remove_original THEN SetPixmap(w, i, BaseImage(w, i, fill_mode, invalid)) ELSE w

\* For rotation 0; the scale is kept in tenths.
_scene_pos_for_center(w, n, center) ==
    << center[1] - (2 * w.pixmap[n].w * w.scale[n]) \div 10,
       center[2] - (2 * w.pixmap[n].h * w.scale[n]) \div 10 >>
\* The new item takes the host's scale and rotation and is centred.
PlaceNew(w, i, center) ==
    Then([w EXCEPT !.scale[w.made] = w.scale[i], !.rot[w.made] = w.rot[i]], LAMBDA w1 :
         [w1 EXCEPT !.pos[w1.made] = _scene_pos_for_center(w1, w1.made, center),
                    !.extracted = w1.made])
\* Faulty variant: an empty intersection returns nothing and leaves the
\* overlay in the scene.
endSelection_keeps_overlay(w, i, target, fill_mode, remove_original, invalid) ==
    IF IsEmpty(_selection_rects(w, i)) THEN w
    ELSE clearSelectionOverlay(
             PlaceNew(NewItem(RemoveOriginal(w, i, fill_mode, remove_original, invalid),
                              "raster", << 0, 0 >>,
                              copy(w.pixmap[i], toAlignedRect(_selection_rects(w, i)))),
                      i,
                      IF target # NoPoint THEN target ELSE RectCenter(scene_rect(w, i))),
             i)
endSelection(w, i, target, fill_mode, remove_original, invalid) ==
    IF IsEmpty(_selection_rects(w, i)) THEN clearSelectionOverlay(w, i)
    ELSE clearSelectionOverlay(
             PlaceNew(NewItem(RemoveOriginal(w, i, fill_mode, remove_original, invalid),
                              "raster", << 0, 0 >>,
                              copy(w.pixmap[i], toAlignedRect(_selection_rects(w, i)))),
                      i,
                      IF target # NoPoint THEN target ELSE RectCenter(scene_rect(w, i))),
             i)

Abs(n) == IF n < 0 THEN -n ELSE n
\* math.hypot of the vectors that have a whole length
hypot(x, y) == CHOOSE n \in 0..(Abs(x) + Abs(y)) : n * n = x * x + y * y
\* parent_item.mapToScene(rect.center()): the transform origin of a raster
\* item is the centre of its pixmap, so scale and rotation leave it in place.
SceneCenter(w, i) ==
    << w.pos[i][1] + 2 * w.pixmap[i].w, w.pos[i][2] + 2 * w.pixmap[i].h >>

\* ------------------------------------------------------------------ CanvasView
\* QGraphicsView.itemAt: the topmost item whose shape holds the point.  An
\* overlay lies 5 above its host, over every item of the layer model; the
\* shape of a pixmap item is its opaque pixels.  Mouse points are taken where
\* no resize or rotate handle lies.
OverlaysAt(w, p) == { i \in Items : w.ov[i].present /\ Contains(w.ov[i].rect, p) }
OpaqueAt(w, i, p) ==
    PixelAt(w.pixmap[i], (p[1] - w.pos[i][1]) \div 4, (p[2] - w.pos[i][2]) \div 4)
        # Transparent
ItemsAt(w, p) == { i \in w.scene : OpaqueAt(w, i, p) }
Topmost(w, S) ==
    CHOOSE i \in S : \A j \in S : w.z[j] < w.z[i] \/ (w.z[j] = w.z[i] /\ j <= i)
itemAt(w, p) ==
    IF OverlaysAt(w, p) # {} THEN << "overlay", Max(OverlaysAt(w, p)) >>
    ELSE IF ItemsAt(w, p) # {} THEN << "item", Topmost(w, ItemsAt(w, p)) >>
    ELSE << "none", NoItem >>

\* Faulty variant: the tool changes and the selection mode is left as it was.
setDragMode(tool) == IF tool = "SELECT" THEN "RubberBandDrag" ELSE "NoDrag"
set_tool_keeps_selection(w, tool) ==
    [w EXCEPT !.tool = tool, !.dragMode = setDragMode(tool)]
set_tool(w, tool) ==
    [(IF w.tool = "SELECTION" /\ tool # "SELECTION" THEN _cancel_selection_mode(w)
      ELSE w) EXCEPT !.tool = tool, !.dragMode = setDragMode(tool)]

\* The host whose overlay is the current one, NoItem for None.
_current_overlay(w) ==
    IF w.host # NoItem /\ hasSelectionOverlay(w, w.host) THEN w.host ELSE NoItem
_is_overlay_related_item(w, clicked) ==
    _current_overlay(w) # NoItem /\ clicked = << "overlay", _current_overlay(w) >>

\* QGraphicsItem.mousePressEvent of a selectable item, left button, no
\* modifier: an unselected item becomes the only selected one.
OverlayMousePress(w, i) ==
    IF w.ov[i].selected THEN w
    ELSE OverlaySetSelected(
             [SceneClearSelection([w EXCEPT !.changing = TRUE]) EXCEPT !.changing = FALSE],
             i, TRUE)
\* The same followed by QGraphicsItem.mouseReleaseEvent at the same point: the
\* clicked item becomes the only selected one and selectionChanged is emitted
\* once if anything changed.
ItemClick(w, i) ==
    IF SelectedItems(w) = { i } /\ OverlaySelected(w) = {} THEN w
    ELSE EmitSceneSelectionChanged(
             [ItemSetSelected(
                  DeselectOverlays(
                      DeselectEach([w EXCEPT !.changing = TRUE], SelectedItems(w) \ { i }),
                      TRUE),
                  i, TRUE)
                 EXCEPT !.changing = FALSE])

\* Faulty variant: the overlay of the previous host is left in the scene.
StartOn_keeps_previous(w, c, p) ==
    [startSelectionOverlay(SceneClearSelection([w EXCEPT !.host = c]), c, p)
        EXCEPT !.creating = TRUE]
\* _handle_selection_press, the branch of a press on raster item c
StartOn(w, c, p) ==
    [startSelectionOverlay(
         SceneClearSelection(
             [(IF w.host # NoItem /\ (w.host # c \/ _current_overlay(w) # NoItem)
               THEN clearSelectionOverlay(w, w.host) ELSE w) EXCEPT !.host = c]),
         c, p)
        EXCEPT !.creating = TRUE]
_handle_selection_press(w, p, clicked) ==
    IF _is_overlay_related_item(w, clicked) THEN OverlayMousePress(w, clicked[2])
    ELSE IF clicked[1] = "item" /\ w.kind[clicked[2]] = "raster" THEN StartOn(w, clicked[2], p)
    ELSE IF _current_overlay(w) # NoItem THEN [w EXCEPT !.drop = TRUE, !.droppos = p]
    ELSE [w EXCEPT !.host = NoItem]

\* MainWindow.fill_mode is set once, in MainWindow.__init__.
fill_mode == "TRANSPARENT"
\* Python's `a or b` on QPointF values: None and the null point (0, 0) are false.
Or(a, b) == IF a = NoPoint \/ a = << 0, 0 >> THEN b ELSE a

_finalize_selection(w, drop_center_scene_pos, remove_original) ==
    IF _current_overlay(w) = NoItem THEN w
    ELSE Then(endSelection(w, w.host,
                           Or(drop_center_scene_pos, RectCenter(scene_rect(w, w.host))),
                           fill_mode, remove_original, Transparent),
              LAMBDA w1 :
              [(IF w1.extracted # NoItem
                THEN set_tool(itemAdded(w1, w1.extracted), "MOVE") ELSE w1)
                  EXCEPT !.host = NoItem, !.creating = FALSE, !.drop = FALSE,
                         !.droppos = NoPoint])

_copy_selection(w) ==
    IF _current_overlay(w) = NoItem THEN w ELSE _finalize_selection(w, NoPoint, FALSE)

\* _clone_item: the copy lies 15 pixels right of and below the original.
_clone_item(w, i) ==
    Then(NewItem(w, w.kind[i], << w.pos[i][1] + 60, w.pos[i][2] + 60 >>, w.pixmap[i]),
         LAMBDA w1 : [w1 EXCEPT !.rot[w1.made] = w.rot[i], !.scale[w1.made] = w.scale[i]])
RECURSIVE CloneEach(_, _), AddEach(_, _)
CloneEach(w, S) ==
    IF S = {} THEN w ELSE CloneEach(_clone_item(w, Min(S)), S \ { Min(S) })
AddEach(w, k) == IF k > w.made THEN w ELSE AddEach(itemAdded(w, k), k + 1)
_copy_selection_or_items(w) ==
    IF w.tool = "SELECTION" /\ _current_overlay(w) # NoItem /\ ~w.creating
    THEN _copy_selection(w)
    ELSE IF SelectedItems(w) \cap SeqSet(graphics_items(w)) = {} THEN w
    ELSE Then(AddEach(CloneEach(w, SelectedItems(w) \cap SeqSet(graphics_items(w))),
                      w.made + 1),
              LAMBDA w1 : SelectEach(SceneClearSelection(w1), (w.made + 1)..w1.made))

\* The RECTANGLE and ELLIPSE tools: the press puts a primitive with the empty
\* rectangle at the point into the scene, without a layer entry.
StartDrawing(w, kind, p) ==
    SceneAddItem(
        [NewItem(w, kind, << 0, 0 >>, NullPixmap)
            EXCEPT !.startPos = p, !.drawing = w.made + 1,
                   !.rect[w.made + 1] = Normalized(p, p)],
        w.made + 1)
\* The release makes the primitive selectable and announces it.
FinishDrawing(w) ==
    [itemAdded([w EXCEPT !.drawing = NoItem], w.drawing) EXCEPT !.startPos = NoPoint]
\* QGraphicsScene.itemAt of the ROTATE and SCALE tools, for items that are not
\* rotated: the topmost item with an opaque pixel at the point, the pixels
\* scaled about the centre of the pixmap by scale / 10.
ScaledOffset(w, i, p, k) ==
    2 * (IF k = 1 THEN w.pixmap[i].w ELSE w.pixmap[i].h) * w.scale[i]
        + 10 * (p[k] - SceneCenter(w, i)[k])
ScaledOpaqueAt(w, i, p) ==
    /\ w.scale[i] > 0
    /\ ScaledOffset(w, i, p, 1) >= 0
    /\ ScaledOffset(w, i, p, 2) >= 0
    /\ PixelAt(w.pixmap[i], ScaledOffset(w, i, p, 1) \div (4 * w.scale[i]),
               ScaledOffset(w, i, p, 2) \div (4 * w.scale[i])) # Transparent
scene_itemAt(w, p) ==
    IF { i \in w.scene : ScaledOpaqueAt(w, i, p) } = {} THEN NoItem
    ELSE Topmost(w, { i \in w.scene : ScaledOpaqueAt(w, i, p) })
\* mousePressEvent, the branch of the ROTATE and SCALE tools
StartInteracting(w, item, p) ==
    IF item = NoItem THEN w
    ELSE [w EXCEPT !.interacting = item, !.startPos = p,
                   !.startRotation = IF w.tool = "ROTATE" THEN w.rot[item] ELSE @,
                   !.startScale = IF w.tool = "ROTATE" THEN @ ELSE w.scale[item]]
\* QPointF.manhattanLength
manhattanLength(v) == Abs(v[1]) + Abs(v[2])
\* math.degrees(math.atan2(y, x)) of the vectors along the axes and diagonals
atan2_degrees(y, x) ==
    CASE x = 0 /\ y = 0 -> 0
      [] x > 0 /\ y = 0 -> 0
      [] x > 0 /\ y = x -> 45
      [] x = 0 /\ y > 0 -> 90
      [] x < 0 /\ y = -x -> 135
      [] x < 0 /\ y = 0 -> 180
      [] x < 0 /\ y = x -> -135
      [] x = 0 /\ y < 0 -> -90
      [] x > 0 /\ y = -x -> -45
Minus(p, q) == << p[1] - q[1], p[2] - q[2] >>
\* item.sceneBoundingRect().center(): the bounding rectangle of a raster item
\* turned and scaled about the centre of its pixmap keeps that centre.
sceneBoundingRect_center(w, i) == SceneCenter(w, i)
\* mouseMoveEvent with an interacting item: the ROTATE tool turns it by the
\* angle between the two vectors from its centre, every other tool scales it
\* by the ratio of their Manhattan lengths.
RotateDrag(w, i, p) ==
    [w EXCEPT !.rot[i] =
        w.startRotation
            + atan2_degrees(Minus(p, sceneBoundingRect_center(w, i))[2],
                            Minus(p, sceneBoundingRect_center(w, i))[1])
            - atan2_degrees(Minus(w.startPos, sceneBoundingRect_center(w, i))[2],
                            Minus(w.startPos, sceneBoundingRect_center(w, i))[1])]
ScaleDrag(w, i, p) ==
    IF manhattanLength(Minus(w.startPos, sceneBoundingRect_center(w, i))) > 0
    THEN [w EXCEPT !.scale[i] =
              (w.startScale * manhattanLength(Minus(p, sceneBoundingRect_center(w, i))))
                  \div manhattanLength(Minus(w.startPos, sceneBoundingRect_center(w, i)))]
    ELSE w
Interact(w, p) ==
    IF w.tool = "ROTATE" THEN RotateDrag(w, w.interacting, p)
    ELSE ScaleDrag(w, w.interacting, p)
mousePressEvent(w, p) ==
    IF w.tool = "SELECTION" THEN _handle_selection_press(w, p, itemAt(w, p))
    ELSE IF w.tool = "RECTANGLE" THEN StartDrawing(w, "rect", p)
    ELSE IF w.tool = "ELLIPSE" THEN StartDrawing(w, "ellipse", p)
    ELSE IF w.tool \in { "ROTATE", "SCALE" } THEN StartInteracting(w, scene_itemAt(w, p), p)
    ELSE w
mouseMoveEvent(w, p) ==
    IF w.tool # "SELECTION"
    THEN (IF w.drawing # NoItem
          THEN [w EXCEPT !.rect[w.drawing] = Normalized(w.startPos, p)]
          ELSE IF w.interacting # NoItem THEN Interact(w, p)
          ELSE w)
    ELSE IF w.creating /\ w.host # NoItem THEN updateSelectionOverlay(w, w.host, p)
    ELSE IF w.drop THEN [w EXCEPT !.droppos = p]
    ELSE w
LockAndActivate(w) ==
    IF _current_overlay(w) # NoItem
    THEN activateSelectionOverlay(lockSelectionOverlay(w, w.host), w.host)
    ELSE w
mouseReleaseEvent(w, p) ==
    IF w.tool # "SELECTION"
    THEN (IF w.drawing # NoItem THEN FinishDrawing(w)
          ELSE IF w.interacting # NoItem
          THEN [w EXCEPT !.interacting = NoItem, !.startPos = NoPoint]
          ELSE w)
    ELSE IF w.creating THEN LockAndActivate([w EXCEPT !.creating = FALSE])
    ELSE IF w.drop
    THEN _finalize_selection([w EXCEPT !.drop = FALSE, !.droppos = NoPoint],
                             Or(w.droppos, p), TRUE)
    ELSE w
mouseDoubleClickEvent(w) ==
    IF w.tool = "SELECTION" /\ _current_overlay(w) # NoItem /\ ~w.creating
    THEN _finalize_selection(w, NoPoint, TRUE)
    ELSE w
Keys == { "Delete", "C", "G", "Return" }
keyPressEvent(w, key) ==
    IF key = "Delete" THEN delete_selected_items(w)
    ELSE IF key = "C" THEN _copy_selection_or_items(w)
    ELSE IF w.tool = "SELECTION" /\ key \in { "G", "Return" }
    THEN _finalize_selection(w, NoPoint, TRUE)
    ELSE w
\* The three entries the menu offers while an overlay is active, and the
\* dismissal of the menu.
MenuChoices == { "Grab Selection", "Copy Selection", "Cancel Selection", "none" }
_show_context_menu(w, choice) ==
    IF ~(w.tool = "SELECTION" /\ _current_overlay(w) # NoItem /\ ~w.creating) THEN w
    ELSE IF choice = "Grab Selection" THEN _finalize_selection(w, NoPoint, TRUE)
    ELSE IF choice = "Copy Selection" THEN _copy_selection(w)
    ELSE IF choice = "Cancel Selection" THEN _cancel_selection_mode(w)
    ELSE w

\* ------------------------------------------------------------------ ResizeHandle
\* The scale 1.0 of a new item, in tenths, and the limit of the factor of one
\* drag: at most 10, at least one tenth.
UnitScale == 10
FactorLimit == 10
\* _start_scale * max(0.1, min(10.0, current_length / start_length))
Rescaled(_start_scale, start_length, current_length) ==
    IF current_length * FactorLimit < start_length THEN _start_scale \div FactorLimit
    ELSE IF current_length > FactorLimit * start_length THEN _start_scale * FactorLimit
    ELSE (_start_scale * current_length) \div start_length
\* The handlers of a handle whose parent has no handle_resize_press.
ResizeHandle_mousePressEvent(w, i, p) ==
    [w EXCEPT !.resize = [item |-> i, pressed |-> TRUE, center |-> SceneCenter(w, i),
                          vector |-> << p[1] - SceneCenter(w, i)[1],
                                        p[2] - SceneCenter(w, i)[2] >>,
                          scale |-> w.scale[i]]]
ResizeHandle_mouseMoveEvent(w, p) ==
    IF ~w.resize.pressed THEN w
    ELSE IF hypot(w.resize.vector[1], w.resize.vector[2]) = 0 THEN w
    ELSE IF hypot(p[1] - w.resize.center[1], p[2] - w.resize.center[2]) = 0 THEN w
    ELSE [w EXCEPT !.scale[w.resize.item] =
              Rescaled(w.resize.scale,
                       hypot(w.resize.vector[1], w.resize.vector[2]),
                       hypot(p[1] - w.resize.center[1], p[2] - w.resize.center[2]))]
ResizeHandle_mouseReleaseEvent(w) == [w EXCEPT !.resize = NoHandle]

\* ------------------------------------------------------------------ RotateHandle
\* No RotateHandle is pressed: _start_vector is None.
NoRotateHandle == [item |-> 0, pressed |-> FALSE, center |-> << 0, 0 >>,
                   vector |-> << 0, 0 >>, rotation |-> 0]
\* The handle of item i as mousePressEvent leaves it.
RotateHandle_mousePressEvent(w, i, p) ==
    [item |-> i, pressed |-> TRUE, center |-> SceneCenter(w, i),
     vector |-> Minus(p, SceneCenter(w, i)), rotation |-> w.rot[i]]
\* The world as mouseMoveEvent of handle h leaves it.
RotateHandle_mouseMoveEvent(w, h, p) ==
    IF ~h.pressed THEN w
    ELSE [w EXCEPT !.rot[h.item] =
              h.rotation + (atan2_degrees(Minus(p, h.center)[2], Minus(p, h.center)[1])
                            - atan2_degrees(h.vector[2], h.vector[1]))]
RotateHandle_mouseReleaseEvent(h) == NoRotateHandle

\* ------------------------------------------------------------------ plugin tools
\* CanvasView.set_active_plugin_tool
set_active_plugin_tool(w, plugin_instance) == [w EXCEPT !.plugin = plugin_instance]
Plugins == { "crop_tool" }
\* What a hook of the active plugin does with an event: it returns True, it
\* returns False, or it raises.
HookOutcomes == { "True", "False", "raised" }
Buttons == { "Left", "Middle" }
Step(w, name) == [w EXCEPT !.steps = Append(@, name)]
\* The delegation at the head of the four handlers.  The call of the hook is
\* not inside a try: an exception leaves the handler at the call.
Offer(w, hook, outcome) ==
    IF w.plugin = NoPlugin THEN w
    ELSE IF outcome = "raised" THEN [Step(Step(w, hook), outcome) EXCEPT !.raised = TRUE]
    ELSE Step(Step(w, hook), outcome)
\* The handler goes on to its built-in logic.
Declined(w, outcome) == w.plugin = NoPlugin \/ outcome = "False"
\* Faulty variant: the built-in logic runs whatever the hook returned.
ViewMousePress_ignores_result(w, button, outcome, p) ==
    IF button = "Middle" THEN [Step(w, "built-in") EXCEPT !.dragMode = "ScrollHandDrag"]
    ELSE mousePressEvent(Step(Offer(w, "_on_view_mouse_press", outcome), "built-in"), p)
\* The four handlers from their first line: the middle button, the scroll
\* drag and the editing of a text item come before the delegation.
ViewMousePress(w, button, outcome, p) ==
    IF button = "Middle" THEN [Step(w, "built-in") EXCEPT !.dragMode = "ScrollHandDrag"]
    ELSE IF Declined(w, outcome)
    THEN mousePressEvent(Step(Offer(w, "_on_view_mouse_press", outcome), "built-in"), p)
    ELSE Offer(w, "_on_view_mouse_press", outcome)
ViewMouseMove(w, outcome, p) ==
    IF w.dragMode = "ScrollHandDrag" THEN Step(w, "built-in")
    ELSE IF Declined(w, outcome)
    THEN mouseMoveEvent(Step(Offer(w, "_on_view_mouse_move", outcome), "built-in"), p)
    ELSE Offer(w, "_on_view_mouse_move", outcome)
ViewMouseRelease(w, button, outcome, p) ==
    IF button = "Middle"
    THEN [Step(w, "built-in") EXCEPT !.dragMode =
              IF w.tool # "SELECT" THEN "NoDrag" ELSE "RubberBandDrag"]
    ELSE IF Declined(w, outcome)
    THEN mouseReleaseEvent(Step(Offer(w, "_on_view_mouse_release", outcome), "built-in"), p)
    ELSE Offer(w, "_on_view_mouse_release", outcome)
_is_text_editing_active(w, focus) == focus # NoItem /\ w.kind[focus] = "text"
ViewKeyPress(w, focus, outcome, key) ==
    IF _is_text_editing_active(w, focus) THEN Step(w, "built-in")
    ELSE IF Declined(w, outcome)
    THEN keyPressEvent(Step(Offer(w, "_on_key_press", outcome), "built-in"), key)
    ELSE Offer(w, "_on_key_press", outcome)

\* ------------------------------------------------------------------ capture
\* QGraphicsItem.setVisible of an overlay that is not selected.
OverlaySetVisible(w, i, v) ==
    IF w.ov[i].present THEN [w EXCEPT !.ov[i].visible = v] ELSE w
\* MainWindow._restore_selection_state.  overlay_item is the overlay the host
\* had when the capture began, NoItem for None; an overlay that has left the
\* scene since is an object no item refers to any more.  setSelected(True)
\* is without effect on an item that is not visible.
_restore_selection_state(w, selected_items, overlay_item, overlay_state) ==
    SelectEach(
        IF overlay_item # NoItem /\ overlay_state.visible /\ overlay_state.selected
        THEN OverlaySetSelected(OverlaySetVisible(w, overlay_item, TRUE), overlay_item, TRUE)
        ELSE IF overlay_item # NoItem
        THEN OverlaySetVisible(w, overlay_item, overlay_state.visible)
        ELSE w,
        selected_items \cap w.scene)
\* MainWindow._capture_scene_image, whether or not the size of the rectangle
\* to render is empty: both branches restore and return.
HideOverlay(w) ==
    IF _current_overlay(w) # NoItem
    THEN OverlaySetVisible(OverlaySetSelected(w, w.host, FALSE), w.host, FALSE)
    ELSE w
\* Faulty variant: the selection is cleared and not restored.
_capture_scene_image_no_restore(w, empty) == SceneClearSelection(HideOverlay(w))
_capture_scene_image(w, empty) ==
    _restore_selection_state(
        SceneClearSelection(HideOverlay(w)), SelectedItems(w), _current_overlay(w),
        IF _current_overlay(w) # NoItem
        THEN [visible |-> w.ov[w.host].visible, selected |-> w.ov[w.host].selected]
        ELSE [visible |-> FALSE, selected |-> FALSE])

\* ------------------------------------------------------------------ view actions
\* The toolbar buttons.
SetTool(tools) ==
    \E tool \in tools :
        /\ tool \in Tools
        /\ Done("set_tool", selection_host, set_tool(World, tool))

\* The left button goes down only when it is up: no overlay is being dragged
\* out and no drop is armed.  The mouse events of the other tools are not part
\* of the specifications that use these actions.
MousePress(points) ==
    \E p \in points :
        /\ current_tool = "SELECTION"
        /\ ~selection_creating /\ ~selection_drop_active
        /\ Done("mousePressEvent", selection_host,
                mousePressEvent([World EXCEPT !.event = << p >>], p))
MouseMove(points) ==
    \E p \in points :
        /\ current_tool = "SELECTION"
        /\ selection_creating \/ selection_drop_active
        /\ Done("mouseMoveEvent", selection_host, mouseMoveEvent(World, p))
MouseRelease(points, limit) ==
    \E p \in points :
        /\ current_tool = "SELECTION"
        /\ selection_creating \/ selection_drop_active
        /\ selection_drop_active => made < limit
        /\ Done("mouseReleaseEvent", selection_host,
                mouseReleaseEvent([World EXCEPT !.event = << p >>], p))
MouseDoubleClick(limit) ==
    /\ current_tool = "SELECTION"
    /\ ~selection_creating /\ ~selection_drop_active
    /\ made < limit
    /\ Done("mouseDoubleClickEvent", selection_host, mouseDoubleClickEvent(World))
KeyPress(keys, limit) ==
    \E key \in keys :
        /\ made + Max({ 1, Cardinality(item_selected) }) <= limit
        /\ Done("keyPressEvent", selection_host,
                keyPressEvent([World EXCEPT !.event = << key >>], key))
ContextMenu(limit) ==
    \E choice \in MenuChoices :
        /\ made < limit
        /\ Done("contextMenuEvent", selection_host,
                _show_context_menu([World EXCEPT !.event = << choice >>], choice))

\* Drawing a primitive: the button goes down with a drawing tool, moves and
\* goes up.
DrawPress(points, limit) ==
    \E p \in points :
        /\ current_tool \in { "RECTANGLE", "ELLIPSE" }
        /\ drawing_item = NoItem
        /\ made < limit
        /\ Done("mousePressEvent", made + 1, mousePressEvent(World, p))
DrawMove(points) ==
    \E p \in points :
        /\ drawing_item # NoItem
        /\ Done("mouseMoveEvent", drawing_item, mouseMoveEvent(World, p))
DrawRelease(points) ==
    \E p \in points :
        /\ drawing_item # NoItem
        /\ Done("mouseReleaseEvent", drawing_item, mouseReleaseEvent(World, p))

\* A resize handle of a selected item is pressed, dragged along the horizontal
\* line through the centre of the item and released.  The distances are chosen
\* so that both limits of the factor are passed, and a drag whose result is not
\* a whole number of tenths is left out.
Distances == { 0, 1, 2, 4, 20, 40 }
Exact(_start_scale, start_length, current_length) ==
    IF start_length = 0 \/ current_length = 0 THEN TRUE
    ELSE IF current_length * FactorLimit < start_length
    THEN _start_scale % FactorLimit = 0
    ELSE IF current_length > FactorLimit * start_length THEN TRUE
    ELSE (_start_scale * current_length) % start_length = 0
HandlePoint(i, d) == << SceneCenter(World, i)[1] + d, SceneCenter(World, i)[2] >>
HandlePress ==
    \E i \in scene_items, d \in Distances :
        /\ item_handles[i] = "scene"
        /\ ~resize_handle.pressed
        /\ item_scale[i] <= MaxDragScale
        /\ Done("ResizeHandle.mousePressEvent", i,
                ResizeHandle_mousePressEvent([World EXCEPT !.event = << d >>], i,
                                             HandlePoint(i, d)))
HandleMove ==
    \E d \in Distances :
        /\ resize_handle.pressed
        /\ Exact(resize_handle.scale, Abs(resize_handle.vector[1]), d)
        /\ Done("ResizeHandle.mouseMoveEvent", resize_handle.item,
                ResizeHandle_mouseMoveEvent([World EXCEPT !.event = << d >>],
                                            HandlePoint(resize_handle.item, d)))
HandleRelease ==
    /\ resize_handle.pressed
    /\ Done("ResizeHandle.mouseReleaseEvent", resize_handle.item,
            ResizeHandle_mouseReleaseEvent(World))

\* The ROTATE and SCALE tools: the button goes down at a point, moves and goes
\* up; the toolbar is used while the button is up.  An item is pressed while
\* it is not turned out of the axes, and a drag is left out when its result is
\* not a whole number of tenths or of degrees.
SetToolIdle(tools) ==
    /\ interacting_item = NoItem
    /\ SetTool(tools)
OnAxes(v) == v[1] = 0 \/ v[2] = 0 \/ Abs(v[1]) = Abs(v[2])
FromCenter(i, p) == Minus(p, SceneCenter(World, i))
Representable(i, p) ==
    IF current_tool = "ROTATE"
    THEN OnAxes(FromCenter(i, start_pos)) /\ OnAxes(FromCenter(i, p))
    ELSE IF manhattanLength(FromCenter(i, start_pos)) = 0 THEN TRUE
    ELSE (start_scale * manhattanLength(FromCenter(i, p)))
             % manhattanLength(FromCenter(i, start_pos)) = 0
TransformPress(points) ==
    \E p \in points :
        /\ current_tool \in { "ROTATE", "SCALE" }
        /\ interacting_item = NoItem
        /\ \A i \in scene_items :
               /\ item_rotation[i] % 90 = 0
               /\ Abs(item_rotation[i]) <= MaxTurn
               /\ item_scale[i] <= MaxPressScale
        /\ Done("mousePressEvent", scene_itemAt(World, p),
                mousePressEvent([World EXCEPT !.event = << p >>], p))
TransformMove(points) ==
    \E p \in points :
        /\ current_tool \in { "ROTATE", "SCALE" }
        /\ interacting_item # NoItem
        /\ Representable(interacting_item, p)
        /\ Done("mouseMoveEvent", interacting_item,
                mouseMoveEvent([World EXCEPT !.event = << p >>], p))
TransformRelease(points) ==
    \E p \in points :
        /\ current_tool \in { "ROTATE", "SCALE" }
        /\ interacting_item # NoItem
        /\ Done("mouseReleaseEvent", interacting_item,
                mouseReleaseEvent([World EXCEPT !.event = << p >>], p))

\* The delegate of the list view asks for the thumbnail of a file while it
\* paints a row, and the timer of the cache fires while it is running.  The
\* file may be missing, changed or unreadable each time it is looked at.
ThumbnailObs(op, path, c) ==
    [ op |-> op, item |-> path, seen |-> c.seen, ready |-> c.ready,
      queue |-> thumbnail_cache.queue, timer |-> thumbnail_cache.timer ]
ThumbnailDone(op, path, c) ==
    /\ thumbnail_cache' = [c EXCEPT !.seen = {}, !.ready = << >>]
    /\ last' = ThumbnailObs(op, path, c)
    /\ UNCHANGED << core_vars, plugin_manager, crop_tool >>
GetThumbnail ==
    \E file_path \in Paths, exists \in BOOLEAN, mtime \in Mtimes :
        /\ thumbnail_requests < MaxRequests
        /\ thumbnail_requests' = thumbnail_requests + 1
        /\ ThumbnailDone("get_thumbnail", file_path,
                         get_thumbnail(thumbnail_cache, file_path, exists, mtime))
ProcessQueue ==
    \E exists \in BOOLEAN, mtime \in Mtimes, isNull \in BOOLEAN :
        /\ thumbnail_cache.timer
        /\ UNCHANGED thumbnail_requests
        /\ ThumbnailDone("_process_queue",
                         IF thumbnail_cache.queue = << >> THEN 0
                         ELSE Head(thumbnail_cache.queue),
                         _process_queue(thumbnail_cache, exists, mtime, isNull))

\* save_canvas and the export to the library, as far as the scene goes.
CaptureSceneImage ==
    \E empty \in BOOLEAN :
        /\ Done("_capture_scene_image", selection_host,
                _capture_scene_image([World EXCEPT !.event = << empty >>], empty))

\* ------------------------------------------------------------------ the crop tool
\* A call of the plugin works on the canvas w and on the plugin object c.
CropRun(w, c) == [w |-> w, c |-> c]
Returns(r, value) == [r EXCEPT !.c.returned = value]
\* sceneBoundingRect of a raster item that is neither rotated nor scaled
sceneBoundingRect(w, i) ==
    << w.pos[i][1], w.pos[i][2], w.pos[i][1] + 4 * w.pixmap[i].w,
       w.pos[i][2] + 4 * w.pixmap[i].h >>
RectWidth(rc) == rc[3] - rc[1]
RectHeight(rc) == rc[4] - rc[2]
Translated(rc, dx, dy) == << rc[1] + dx, rc[2] + dy, rc[3] + dx, rc[4] + dy >>
\* QRectF.toRect of a rectangle with no negative corner: each edge goes to the
\* nearest pixel, halves upwards; the right and bottom edges are excluded.
toRect(rc) ==
    << (rc[1] + 2) \div 4, (rc[2] + 2) \div 4, (rc[3] + 2) \div 4, (rc[4] + 2) \div 4 >>
HANDLE_SIZE == 12
MinCropSize == 10
\* CropOverlay._get_handle_at, at a local position of an overlay of the given size
_get_handle_at(width, height, x, y) ==
    IF y < 4 * HANDLE_SIZE /\ x < 4 * HANDLE_SIZE THEN "TOP_LEFT"
    ELSE IF y < 4 * HANDLE_SIZE /\ x > width - 4 * HANDLE_SIZE THEN "TOP_RIGHT"
    ELSE IF y > height - 4 * HANDLE_SIZE /\ x > width - 4 * HANDLE_SIZE THEN "BOTTOM_RIGHT"
    ELSE IF y > height - 4 * HANDLE_SIZE /\ x < 4 * HANDLE_SIZE THEN "BOTTOM_LEFT"
    ELSE IF y < 4 * HANDLE_SIZE THEN "TOP"
    ELSE IF x > width - 4 * HANDLE_SIZE THEN "RIGHT"
    ELSE IF y > height - 4 * HANDLE_SIZE THEN "BOTTOM"
    ELSE IF x < 4 * HANDLE_SIZE THEN "LEFT"
    ELSE "None"
CropOverlay_mousePressEvent(o, p) ==
    [o EXCEPT !.dragging = TRUE,
              !._dragging_handle = _get_handle_at(RectWidth(o.rect), RectHeight(o.rect),
                                                  p[1] - o.rect[1], p[2] - o.rect[2]),
              !._drag_start_rect = o.rect, !._drag_start_pos = p]
\* The rectangle of the drag before it is normalized.
Dragged(rc, handle, dx, dy) ==
    IF handle = "None" THEN Translated(rc, dx, dy)
    ELSE << rc[1] + (IF handle \in { "LEFT", "TOP_LEFT", "BOTTOM_LEFT" } THEN dx ELSE 0),
            rc[2] + (IF handle \in { "TOP", "TOP_LEFT", "TOP_RIGHT" } THEN dy ELSE 0),
            rc[3] + (IF handle \in { "RIGHT", "TOP_RIGHT", "BOTTOM_RIGHT" } THEN dx ELSE 0),
            rc[4] + (IF handle \in { "BOTTOM", "BOTTOM_LEFT", "BOTTOM_RIGHT" } THEN dy ELSE 0) >>
\* setWidth and setHeight of the rectangles below the minimum size
AtLeastMinimum(rc) ==
    << rc[1], rc[2],
       IF RectWidth(rc) < 4 * MinCropSize THEN rc[1] + 4 * MinCropSize ELSE rc[3],
       IF RectHeight(rc) < 4 * MinCropSize THEN rc[2] + 4 * MinCropSize ELSE rc[4] >>
\* The rectangle constrained to the image of the target item.
Constrained(rc, img_rect) ==
    IF IsEmpty(Intersected(rc, img_rect))
    THEN << img_rect[1], img_rect[2], img_rect[1] + 4 * MinCropSize,
            img_rect[2] + 4 * MinCropSize >>
    ELSE Intersected(rc, img_rect)
CropOverlay_mouseMoveEvent(w, o, target, p) ==
    IF ~o.dragging THEN o
    ELSE [o EXCEPT !.rect =
              IF target = NoItem
              THEN AtLeastMinimum(Normalized(
                       << Dragged(o._drag_start_rect, o._dragging_handle,
                                  p[1] - o._drag_start_pos[1],
                                  p[2] - o._drag_start_pos[2])[1],
                          Dragged(o._drag_start_rect, o._dragging_handle,
                                  p[1] - o._drag_start_pos[1],
                                  p[2] - o._drag_start_pos[2])[2] >>,
                       << Dragged(o._drag_start_rect, o._dragging_handle,
                                  p[1] - o._drag_start_pos[1],
                                  p[2] - o._drag_start_pos[2])[3],
                          Dragged(o._drag_start_rect, o._dragging_handle,
                                  p[1] - o._drag_start_pos[1],
                                  p[2] - o._drag_start_pos[2])[4] >>))
              ELSE Constrained(
                       AtLeastMinimum(Normalized(
                           << Dragged(o._drag_start_rect, o._dragging_handle,
                                      p[1] - o._drag_start_pos[1],
                                      p[2] - o._drag_start_pos[2])[1],
                              Dragged(o._drag_start_rect, o._dragging_handle,
                                      p[1] - o._drag_start_pos[1],
                                      p[2] - o._drag_start_pos[2])[2] >>,
                           << Dragged(o._drag_start_rect, o._dragging_handle,
                                      p[1] - o._drag_start_pos[1],
                                      p[2] - o._drag_start_pos[2])[3],
                              Dragged(o._drag_start_rect, o._dragging_handle,
                                      p[1] - o._drag_start_pos[1],
                                      p[2] - o._drag_start_pos[2])[4] >>)),
                       sceneBoundingRect(w, target))]
CropOverlay_mouseReleaseEvent(o) ==
    [o EXCEPT !.dragging = FALSE, !._dragging_handle = "None",
              !._drag_start_rect = NullRect, !._drag_start_pos = NoPoint]

\* Plugin
activate_crop_mode(r) ==
    IF r.c._crop_mode_active THEN r
    ELSE [r EXCEPT !.c._crop_mode_active = TRUE,
                   !.w = set_active_plugin_tool(@, "crop_tool")]
\* scene.selectedItems() has no defined order: target is any selected raster
\* item, or NoItem when there is none.
SelectedRasters(w) == { i \in SelectedItems(w) : w.kind[i] = "raster" }
\* The new overlay is added to the scene; an overlay that is there already
\* stays in the scene and is no longer referred to.
crop_selected(r, target) ==
    IF target = NoItem THEN r
    ELSE [r EXCEPT !.c._crop_mode_active = TRUE,
                   !.w = set_active_plugin_tool(@, "crop_tool"),
                   !.c._target_item = target,
                   !.c.orphans = @ + (IF r.c._crop_overlay.present THEN 1 ELSE 0),
                   !.c._crop_overlay = CropOverlay(sceneBoundingRect(r.w, target))]
deactivate_crop_mode(r) ==
    IF ~r.c._crop_mode_active THEN r
    ELSE [r EXCEPT !.c._crop_mode_active = FALSE, !.c._drawing_crop = FALSE,
                   !.c._draw_start_pos = NoPoint, !.c._crop_overlay = NoCropOverlay,
                   !.c._target_item = NoItem,
                   !.w = set_active_plugin_tool(@, NoPlugin)]
\* The raster items whose shape holds the point
RastersAt(w, p) == { i \in ItemsAt(w, p) : w.kind[i] = "raster" }
\* scene.itemAt is the overlay of the plugin: of the items with z value 1000
\* the one added last is on top.
OnCropOverlay(c, p) == c._crop_overlay.present /\ Contains(c._crop_overlay.rect, p)
_on_view_mouse_press(r, p) ==
    IF ~r.c._crop_mode_active THEN Returns(r, FALSE)
    ELSE IF OnCropOverlay(r.c, p) THEN Returns(r, FALSE)
    ELSE IF RastersAt(r.w, p) = {} THEN Returns(r, FALSE)
    ELSE Returns([r EXCEPT !.c._target_item = Topmost(r.w, RastersAt(r.w, p)),
                           !.c._drawing_crop = TRUE, !.c._draw_start_pos = p,
                           !.c._crop_overlay = CropOverlay(Normalized(p, p))], TRUE)
DrawnRect(r, p) ==
    IF r.c._target_item = NoItem THEN Normalized(r.c._draw_start_pos, p)
    ELSE Intersected(Normalized(r.c._draw_start_pos, p),
                     sceneBoundingRect(r.w, r.c._target_item))
_on_view_mouse_move(r, p) ==
    IF ~r.c._drawing_crop \/ ~r.c._crop_overlay.present THEN Returns(r, FALSE)
    ELSE IF IsEmpty(DrawnRect(r, p)) THEN Returns(r, TRUE)
    ELSE Returns([r EXCEPT !.c._crop_overlay.rect = DrawnRect(r, p)], TRUE)
TooSmall(rc) == RectWidth(rc) < 4 * MinCropSize \/ RectHeight(rc) < 4 * MinCropSize
_on_view_mouse_release(r) ==
    IF ~r.c._drawing_crop THEN Returns(r, FALSE)
    ELSE Returns([r EXCEPT
                     !.c._drawing_crop = FALSE, !.c._draw_start_pos = NoPoint,
                     !.c._crop_overlay.rect =
                         IF r.c._crop_overlay.present /\ TooSmall(@)
                            /\ r.c._target_item # NoItem
                         THEN sceneBoundingRect(r.w, r.c._target_item) ELSE @], TRUE)
\* The crop rectangle in the coordinates of the target, clipped to its image.
CropLocalRect(r) ==
    Intersected(Translated(r.c._crop_overlay.rect, -r.w.pos[r.c._target_item][1],
                           -r.w.pos[r.c._target_item][2]),
                pix_rect(r.w, r.c._target_item))
\* push_undoable(action) and then action.execute()
Cropped(w, action) == ActionExecute(push([w EXCEPT !.nact = @ + 1], action), action)
apply_crop(r) ==
    IF ~r.c._crop_overlay.present \/ r.c._target_item = NoItem THEN deactivate_crop_mode(r)
    ELSE IF r.w.kind[r.c._target_item] # "raster" THEN deactivate_crop_mode(r)
    ELSE IF IsEmpty(CropLocalRect(r)) \/ RectWidth(CropLocalRect(r)) < 4
            \/ RectHeight(CropLocalRect(r)) < 4
    THEN deactivate_crop_mode(r)
    ELSE deactivate_crop_mode(
             [r EXCEPT !.w = Cropped(@, CropAction(
                  r.w.nact + 1, r.c._target_item, r.w.pixmap[r.c._target_item],
                  copy(r.w.pixmap[r.c._target_item], toRect(CropLocalRect(r))),
                  r.w.pos[r.c._target_item],
                  << r.w.pos[r.c._target_item][1] + CropLocalRect(r)[1],
                     r.w.pos[r.c._target_item][2] + CropLocalRect(r)[2] >>))])
_on_key_press(r, key) ==
    IF ~r.c._crop_mode_active THEN Returns(r, FALSE)
    ELSE IF key = "C" /\ r.c._crop_overlay.present /\ r.c._target_item # NoItem
    THEN Returns(apply_crop(r), TRUE)
    ELSE IF key = "Escape" THEN Returns(deactivate_crop_mode(r), TRUE)
    ELSE Returns(r, FALSE)

\* The handlers of the view with the crop plugin as the plugin tool.  With the
\* SELECT tool the built-in handler hands the event on to the scene: a press
\* goes to the crop overlay under it, or selects the item under it, or clears
\* the selection; moves and releases go to the overlay that took the press.
ScenePress(r, p) ==
    IF OnCropOverlay(r.c, p)
    THEN [r EXCEPT !.c._crop_overlay = CropOverlay_mousePressEvent(@, p)]
    ELSE IF ItemsAt(r.w, p) # {}
    THEN [r EXCEPT !.w = ItemClick(@, Topmost(r.w, ItemsAt(r.w, p)))]
    ELSE [r EXCEPT !.w = SceneClearSelection(@)]
PressDeclined(r, p) ==
    IF r.c.returned THEN r ELSE ScenePress([r EXCEPT !.w = mousePressEvent(@, p)], p)
CropMousePressEvent(r, p) ==
    IF r.w.plugin = NoPlugin THEN PressDeclined(Returns(r, FALSE), p)
    ELSE PressDeclined(_on_view_mouse_press(r, p), p)
MoveDeclined(r, p) ==
    IF r.c.returned THEN r
    ELSE [r EXCEPT !.w = mouseMoveEvent(@, p),
                   !.c._crop_overlay =
                       CropOverlay_mouseMoveEvent(r.w, @, r.c._target_item, p)]
CropMouseMoveEvent(r, p) ==
    IF r.w.plugin = NoPlugin THEN MoveDeclined(Returns(r, FALSE), p)
    ELSE MoveDeclined(_on_view_mouse_move(r, p), p)
ReleaseDeclined(r, p) ==
    IF r.c.returned THEN r
    ELSE [r EXCEPT !.w = mouseReleaseEvent(@, p),
                   !.c._crop_overlay = CropOverlay_mouseReleaseEvent(@)]
CropMouseReleaseEvent(r, p) ==
    IF r.w.plugin = NoPlugin THEN ReleaseDeclined(Returns(r, FALSE), p)
    ELSE ReleaseDeclined(_on_view_mouse_release(r), p)
KeyDeclined(r, key) ==
    IF r.c.returned THEN r ELSE [r EXCEPT !.w = keyPressEvent(@, key)]
CropKeyPressEvent(r, key) ==
    IF r.w.plugin = NoPlugin THEN KeyDeclined(Returns(r, FALSE), key)
    ELSE KeyDeclined(_on_key_press(r, key), key)

CropToolObs(op, r) ==
    [ op |-> op, item |-> r.c._target_item, returned |-> r.c.returned,
      calls |-> r.w.calls, event |-> r.w.event ]
CropToolDone(op, r) ==
    /\ crop_tool' = [r.c EXCEPT !.returned = FALSE]
    /\ CommitCore(r.w)
    /\ last' = CropToolObs(op, r)
    /\ UNCHANGED << thumbnail_vars, plugin_manager >>
\* The toolbar and menu callbacks of the plugin and the two entries of the
\* context menu of the overlay.
ActivateCropMode ==
    /\ CropToolDone("activate_crop_mode", activate_crop_mode(CropRun(World, crop_tool)))
CropSelected ==
    \E target \in Items \cup { NoItem } :
        /\ IF SelectedRasters(World) = {} THEN target = NoItem
           ELSE target \in SelectedRasters(World)
        /\ crop_tool.orphans < MaxOrphans
        /\ CropToolDone("crop_selected", crop_selected(CropRun(World, crop_tool), target))
DeactivateCropMode ==
    /\ CropToolDone("deactivate_crop_mode", deactivate_crop_mode(CropRun(World, crop_tool)))
ApplyCrop ==
    /\ next_action < MaxCrops
    /\ CropToolDone("apply_crop", apply_crop(CropRun(World, crop_tool)))
\* The mouse and the keys at the view.  The moves followed are those of a
\* crop region being drawn and of an overlay being dragged.
CropMousePress(points) ==
    \E p \in points :
        /\ ~crop_tool._drawing_crop /\ ~crop_tool._crop_overlay.dragging
        /\ CropToolDone("mousePressEvent",
                        CropMousePressEvent(CropRun([World EXCEPT !.event = << p >>],
                                                    crop_tool), p))
CropMouseMove(points) ==
    \E p \in points :
        /\ crop_tool._drawing_crop \/ crop_tool._crop_overlay.dragging
        /\ CropToolDone("mouseMoveEvent",
                        CropMouseMoveEvent(CropRun([World EXCEPT !.event = << p >>],
                                                   crop_tool), p))
CropMouseRelease(points) ==
    \E p \in points :
        /\ crop_tool._drawing_crop \/ crop_tool._crop_overlay.dragging
        /\ CropToolDone("mouseReleaseEvent",
                        CropMouseReleaseEvent(CropRun([World EXCEPT !.event = << p >>],
                                                      crop_tool), p))
CropKeyPress(keys) ==
    \E key \in keys :
        /\ next_action < MaxCrops
        /\ made + Cardinality(item_selected) <= MaxToolItems
        /\ CropToolDone("keyPressEvent",
                        CropKeyPressEvent(CropRun([World EXCEPT !.event = << key >>],
                                                  crop_tool), key))

\* Calls of the plugin manager from the plugin dialog and at startup, with
\* whatever the plugin's directory and code do at each call.  cleanup() of a
\* PluginAPI clears the active plugin tool of the view.
PluginManagerObs(op, plugin_id, m) ==
    [ op |-> op, item |-> plugin_id, returned |-> m.returned, emitted |-> m.emitted,
      cleared |-> m.cleared ]
PluginManagerDone(op, plugin_id, m) ==
    /\ plugin_manager' = [m EXCEPT !.emitted = << >>, !.returned = "None",
                                   !.cleared = FALSE]
    /\ CommitCore(IF m.cleared THEN set_active_plugin_tool(World, NoPlugin) ELSE World)
    /\ last' = PluginManagerObs(op, plugin_id, m)
    /\ UNCHANGED << thumbnail_vars, crop_tool >>
LoadPlugin ==
    \E plugin_id \in PluginIds, fault \in LoadFaults, registered \in 0..MaxActions :
        /\ PluginManagerDone("load_plugin", plugin_id,
                             load_plugin(plugin_manager, plugin_id, fault, registered))
UnloadPlugin ==
    \E plugin_id \in PluginIds, raises \in BOOLEAN :
        /\ PluginManagerDone("unload_plugin", plugin_id,
                             unload_plugin(plugin_manager, plugin_id, raises))
ReloadPlugin ==
    \E plugin_id \in PluginIds, raises \in BOOLEAN, fault \in LoadFaults,
       registered \in 0..MaxActions :
        /\ PluginManagerDone("reload_plugin", plugin_id,
                             reload_plugin(plugin_manager, plugin_id, raises, fault,
                                           registered))
EnablePlugin ==
    \E plugin_id \in PluginIds, enabled \in BOOLEAN, raises \in BOOLEAN,
       fault \in LoadFaults, registered \in 0..MaxActions :
        /\ PluginManagerDone("enable_plugin", plugin_id,
                             enable_plugin(plugin_manager, plugin_id, enabled, raises,
                                           fault, registered))

\* The plugin manager sets or clears the active plugin tool.
SetActivePluginTool ==
    \E plugin_instance \in Plugins \cup { NoPlugin } :
        /\ plugin_instance # active_plugin_tool
        /\ Done("set_active_plugin_tool", selection_host,
                set_active_plugin_tool(World, plugin_instance))
\* Events at the view with either button, whatever the hook of the active
\* plugin does with them.  Without a plugin there is no hook to call.  The
\* steps of a handler are listed after the event as it arrived: the button, the
\* drag mode of the view, or whether a text item is being edited.
HookOutcome(outcome) == active_plugin_tool = NoPlugin => outcome = "False"
PluginMousePress(points) ==
    \E button \in Buttons, outcome \in HookOutcomes, p \in points :
        /\ HookOutcome(outcome)
        /\ IF button = "Middle" THEN drag_mode # "ScrollHandDrag"
           ELSE ~selection_creating /\ ~selection_drop_active
        /\ Done("mousePressEvent", selection_host,
                ViewMousePress(Step(World, button), button, outcome, p))
PluginMouseMove(points) ==
    \E outcome \in HookOutcomes, p \in points :
        /\ HookOutcome(outcome)
        /\ Done("mouseMoveEvent", selection_host,
                ViewMouseMove(Step(World, drag_mode), outcome, p))
PluginMouseRelease(points, limit) ==
    \E button \in Buttons, outcome \in HookOutcomes, p \in points :
        /\ HookOutcome(outcome)
        /\ button = "Middle" => drag_mode = "ScrollHandDrag"
        /\ selection_drop_active => made < limit
        /\ Done("mouseReleaseEvent", selection_host,
                ViewMouseRelease(Step(World, button), button, outcome, p))
\* A key arrives while a text item of the scene has the focus and is being
\* edited, or while none is.
PluginKeyPress(keys, limit) ==
    \E focus \in scene_items \cup { NoItem }, outcome \in HookOutcomes, key \in keys :
        /\ HookOutcome(outcome)
        /\ focus # NoItem => item_kind[focus] = "text"
        /\ made + Max({ 1, Cardinality(item_selected) }) <= limit
        /\ Done("keyPressEvent", selection_host,
                ViewKeyPress(Step(World, IF focus = NoItem THEN "no editing" ELSE "editing"),
                             focus, outcome, key))

\* RasterItem.endSelection called on the host of a locked overlay, with each
\* fill mode and each value of remove_original.
CropObs(w, i, mode, remove_original) ==
    [ op |-> "endSelection", item |-> i, extracted |-> w.extracted,
      fill_mode |-> mode, remove_original |-> remove_original,
      local |-> LocalRect(World, i), bounds |-> pix_rect(World, i),
      pixmap |-> item_pixmap[i], bytes |-> image_bytes[i] ]
EndSelection ==
    \E mode \in FillModes, remove_original \in BOOLEAN, invalid \in Pixels :
        /\ OverlayPhase = "LOCKED"
        /\ Then(endSelection(World, selection_host, NoPoint, mode, remove_original,
                             invalid),
                LAMBDA w : Commit(w) /\ last' = CropObs(w, selection_host, mode,
                                                        remove_original))

\* The user clicks a row of the layer list; the observation tells a click
\* that changes the selection of the list from one that does not.
LayerClick ==
    \E k \in 1..Len(layer_rows) :
        /\ Done(IF layer_selected = { layer_rows[k] } THEN "layer_reselect"
                ELSE "layer_select",
                layer_rows[k], LayerSetCurrent(World, layer_rows[k]))

\* The user clicks an item, or the empty canvas, with the SELECT tool.
SceneClick ==
    \E i \in scene_items :
        /\ current_tool = "SELECT"
        /\ Done(IF SelectedItems(World) = { i } THEN "scene_reselect" ELSE "scene_select",
                i, ItemClick(World, i))
SceneClickEmpty ==
    /\ current_tool = "SELECT"
    /\ Done("scene_clear", NoItem, SceneClearSelection(World))
\* Ctrl-click toggles the item under the cursor.
SceneCtrlClick ==
    \E i \in scene_items :
        /\ current_tool = "SELECT"
        /\ Done("scene_toggle", i, ItemSetSelected(World, i, i \notin item_selected))

NextLayer ==
    \/ PasteAtPosition(MaxItems, { "raster", "text" }, Origin, Opaque)
    \/ AdjustLayerZ
    \/ LayerDropEvent
    \/ LayerSelectRow
    \/ DeleteSelectedItems
    \/ Flatten(MaxItems)

SpecLayer == Init /\ [][NextLayer]_vars

NextItems ==
    \/ PasteAtPosition(MaxUndoItems, { "raster" }, Origin, Opaque)
    \/ LayerSelectRow
    \/ DeleteSelectedItems
    \/ Flatten(MaxUndoItems)
    \/ ExecuteItemAction
    \/ Undo
    \/ Redo

SpecItems == Init /\ [][NextItems]_vars

NextRoundTrip ==
    \/ PasteAtPosition(MaxUndoItems, { "raster" }, Origin, Opaque)
    \/ ExecuteTracked
    \/ ExecuteGroupTracked
    \/ UndoTracked
    \/ RedoTracked

SpecRoundTrip == Init /\ [][NextRoundTrip]_vars

NextHistory ==
    \/ PasteAtPosition(1, { "raster" }, Origin, Opaque)
    \/ ExecuteEdit
    \/ PushEdit
    \/ BeginGroup
    \/ EndGroup
    \/ Undo
    \/ Redo
    \/ Clear

SpecHistory == Init /\ [][NextHistory]_vars

\* An image has been pasted at the origin and, with the SELECTION tool, the
\* mouse has been pressed at one point, dragged to another and released.
Selected(bitmap, from, to) ==
    mouseReleaseEvent(
        mouseMoveEvent(
            mousePressEvent(
                set_tool(paste_at_position(EmptyWorld, "raster", << 0, 0 >>, bitmap),
                         "SELECTION"),
                from),
            to),
        to)
InitCrop ==
    \E bitmap \in Palette, from \in Points, to \in Points :
        /\ Is(Selected(bitmap, from, to))
        /\ SideInit
        /\ last = Obs("init", NoItem, EmptyWorld)
NextCrop ==
    \/ EndSelection

SpecCrop == InitCrop /\ [][NextCrop]_vars

NextSelect ==
    \/ PasteAtPosition(MaxItems, { "raster", "text" }, Origin, Opaque)
    \/ LayerClick
    \/ SceneClick
    \/ SceneClickEmpty
    \/ SceneCtrlClick
    \/ DeleteSelectedItems

SpecSelect == Init /\ [][NextSelect]_vars

\* One pasted opaque image and what is extracted from it; the mouse moves on
\* the whole-pixel points of the diagonal.
Diagonal == { << c, c >> : c \in { k \in Coords : k % 4 = 0 } }
NextTool ==
    \/ PasteAtPosition(1, { "raster" }, Origin, { Flat(2, 2, Black) })
    \/ SetTool({ "SELECT", "SELECTION" })
    \/ MousePress(Diagonal)
    \/ MouseMove(Diagonal)
    \/ MouseRelease(Diagonal, MaxToolItems)
    \/ MouseDoubleClick(MaxToolItems)
    \/ KeyPress(Keys, MaxToolItems)
    \/ ContextMenu(MaxToolItems)

SpecTool == Init /\ [][NextTool]_vars

\* The same canvas with an active plugin tool that takes, declines or fails
\* on the events of the view.
TwoPoints == { << 0, 0 >>, << 4, 4 >> }
NextPlugin ==
    \/ PasteAtPosition(MaxToolItems, { "raster", "text" }, Origin, { Flat(2, 2, Black) })
    \/ SetTool({ "SELECT", "SELECTION" })
    \/ SetActivePluginTool
    \/ PluginMousePress(TwoPoints)
    \/ PluginMouseMove(TwoPoints)
    \/ PluginMouseRelease(TwoPoints, MaxToolItems)
    \/ PluginKeyPress({ "Delete", "G" }, MaxToolItems)

SpecPlugin == Init /\ [][NextPlugin]_vars

\* One pasted image, selected, and drags of its resize handles.
NextResize ==
    \/ PasteAtPosition(1, { "raster" }, Origin, Opaque)
    \/ HandlePress
    \/ HandleMove
    \/ HandleRelease

SpecResize == Init /\ [][NextResize]_vars

\* One opaque image of 2 x 2 pixels, its centre at << 4, 4 >>, dragged with
\* the ROTATE and SCALE tools between the centre and points along the axes,
\* and from a point whose Euclidean and Manhattan distances to the centre are
\* 5 and 7.
DragPoints ==
    { << 4, 4 >>, << 5, 4 >>, << 4, 6 >>, << 2, 4 >>, << 24, 4 >>, << 1, 0 >>,
      << 11, 4 >> }
NextTransform ==
    \/ PasteAtPosition(1, { "raster" }, Origin, { Flat(2, 2, Black) })
    \/ SetToolIdle({ "ROTATE", "SCALE" })
    \/ TransformPress(DragPoints)
    \/ TransformMove(DragPoints)
    \/ TransformRelease(DragPoints)

SpecTransform == Init /\ [][NextTransform]_vars

\* The thumbnails of the library panel: requests from the delegate and ticks
\* of the timer, which fires as long as it is running.
NextThumbnails ==
    \/ GetThumbnail
    \/ ProcessQueue

SpecThumbnails == Init /\ [][NextThumbnails]_vars /\ WF_vars(ProcessQueue)

\* Plugins loaded, unloaded, reloaded, enabled and disabled, and a plugin
\* made the active tool.
NextPluginManager ==
    \/ LoadPlugin
    \/ UnloadPlugin
    \/ ReloadPlugin
    \/ EnablePlugin
    \/ SetActivePluginTool

SpecPluginManager == Init /\ [][NextPluginManager]_vars

\* An image on the canvas and the crop tool: its callbacks, the mouse and
\* the keys C and Escape.
CropPoints == { << 0, 0 >>, << 4, 4 >>, << 8, 4 >>, << 12, 12 >> }
NextCropTool ==
    \/ PasteAtPosition(1, { "raster" }, Origin, { Flat(2, 2, Black) })
    \/ ActivateCropMode
    \/ CropSelected
    \/ DeactivateCropMode
    \/ ApplyCrop
    \/ CropMousePress(CropPoints)
    \/ CropMouseMove(CropPoints)
    \/ CropMouseRelease(CropPoints)
    \/ CropKeyPress({ "C", "Escape" })

SpecCropTool == Init /\ [][NextCropTool]_vars

\* Images and an overlay drawn on one of them, rows of the layer list
\* clicked, and the canvas saved.
NextCapture ==
    \/ PasteAtPosition(MaxToolItems, { "raster" }, Origin, { Flat(2, 2, Black) })
    \/ SetTool({ "SELECT", "SELECTION" })
    \/ MousePress(Diagonal)
    \/ MouseMove(Diagonal)
    \/ MouseRelease(Diagonal, MaxToolItems)
    \/ LayerClick
    \/ CaptureSceneImage

SpecCapture == Init /\ [][NextCapture]_vars

\* Layers moved with the two toolbar buttons.
NextMove ==
    \/ PasteAtPosition(MaxItems, { "raster" }, Origin, Opaque)
    \/ LayerSelectRow
    \/ BringForward
    \/ SendBackward
    \/ DeleteSelectedItems

SpecMove == Init /\ [][NextMove]_vars

\* Primitives drawn between points of the diagonal, and the undo and redo
\* commands of the main window.
NextDraw ==
    \/ SetTool({ "RECTANGLE", "ELLIPSE" })
    \/ DrawPress(Diagonal, MaxToolItems)
    \/ DrawMove(Diagonal)
    \/ DrawRelease(Diagonal)
    \/ Undo
    \/ Redo

SpecDraw == Init /\ [][NextDraw]_vars

\* C1: after every layer operation the item of the layer entry at index i
\* (0-based, top first) has zValue count - i.
C1_ZOrderInvariant ==
    \A k \in 1..Len(layer_rows) : item_z[layer_rows[k]] = Len(layer_rows) - (k - 1)

\* A drag-reorder or a move up/down has put an older item above a newer one.
C1_Witness ==
    /\ last.op \in { "dropEvent", "adjust_layer_z" }
    /\ Len(layer_rows) >= 3
    /\ layer_rows[1] < layer_rows[2]

\* C5: every item a layer entry refers to is in the scene.
C5_LayerItemsInScene == SeqSet(layer_rows) \subseteq scene_items

\* The undo of an AddItemAction has just taken an item that had a layer row
\* out of the scene, and other rows remain.
C5_Witness ==
    /\ last.op = "undo"
    /\ redo_stack # << >>
    /\ redo_stack[Len(redo_stack)].kind = "Add"
    /\ redo_stack[Len(redo_stack)].item \notin scene_items
    /\ last.calls # << >>
    /\ layer_rows # << >>

\* C2: execute(A) followed by undo() leaves the observable state as it was
\* before execute, and a following redo() leaves it as it was right after
\* execute, for every built-in action kind and for a group of two kinds.
C2_UndoRedoRoundTrip ==
    /\ (last.op = "undo" /\ last.armed) => Observable(World) = last.pre
    /\ (last.op = "redo" /\ last.armed) => Observable(World) = last.post

\* The subset of C2 that the setter actions satisfy.
C2_SettersRoundTrip ==
    /\ (last.op = "undo" /\ last.armed
            /\ last.kinds \subseteq { "Move", "Transform", "ImageEdit", "Property" })
        => Observable(World) = last.pre
    /\ (last.op = "redo" /\ last.armed
            /\ last.kinds \subseteq { "Move", "Transform", "ImageEdit", "Property" })
        => Observable(World) = last.post

\* C3: with no group open, every execute or push leaves the redo stack empty
\* and the undo stack holding the most recent entries in push order, at most
\* max_history of them: the stack as it was, the new action appended, the
\* oldest entries discarded first.  After max_history + k such calls the
\* stack therefore holds exactly the max_history most recent actions.
C3_HistoryBound ==
    (last.op \in { "execute", "push" } /\ last.open = << >>) =>
        /\ redo_stack = << >>
        /\ Len(undo_stack) = Min({ MaxHistory, Len(last.before) + 1 })
        /\ Top(undo_stack).id = last.item
        /\ Pop(undo_stack) =
               SubSeq(last.before, Len(last.before) - Len(undo_stack) + 2,
                      Len(last.before))

\* max_history + 1 actions were pushed in a row and the first one is gone.
C3_Witness ==
    /\ last.op \in { "execute", "push" }
    /\ last.open = << >>
    /\ Len(last.before) = MaxHistory
    /\ Len(undo_stack) = MaxHistory
    /\ undo_stack[1].id = 2
    /\ last.item = MaxHistory + 1

\* the UndoableAction methods a group's undo / execute is to call, in order
CallsOf(what, as) == [k \in 1..Len(as) |-> << what, as[k].id >>]
C4_ChildrenOrder ==
    /\ (last.op = "undo" /\ last.before # << >> /\ Top(last.before).kind = "Group")
        => last.calls = CallsOf("undo", Reverse(Top(last.before).children))
    /\ (last.op = "redo" /\ Len(undo_stack) = Len(last.before) + 1
            /\ Top(undo_stack).kind = "Group")
        => last.calls = CallsOf("execute", Top(undo_stack).children)
C4_GroupClosed ==
    /\ last.op = "end_group"
    /\ last.open # << >>
    /\ Top(last.open).children # << >>

\* C4 as stated: begin_group, n >= 1 execute/push calls and end_group grow the
\* undo stack by exactly one entry; undo calls undo on the children in
\* reverse order and redo executes them in the original order.
C4_GroupGrowsByOne ==
    /\ C4_GroupClosed => Len(undo_stack) = Len(last.before) + 1
    /\ C4_ChildrenOrder

\* C4, amended: the closed group is the single new top entry of the undo
\* stack, which has grown by one entry unless it already held max_history
\* entries, when the oldest entry is discarded; the order of the children's
\* undo and execute calls is as stated.
C4_GroupIsOneEntry ==
    /\ C4_GroupClosed =>
           /\ Top(undo_stack) = Top(last.open)
           /\ Len(undo_stack) = Min({ MaxHistory, Len(last.before) + 1 })
           /\ Pop(undo_stack) =
                  SubSeq(last.before, Len(last.before) - Len(undo_stack) + 2,
                         Len(last.before))
    /\ C4_ChildrenOrder

\* A group of two children has just been undone.
C4_Witness ==
    /\ last.op = "undo"
    /\ last.before # << >>
    /\ Top(last.before).kind = "Group"
    /\ Len(Top(last.before).children) >= 2
    /\ Len(last.calls) >= 2

\* C6: for a selection rectangle [x,y,w,h] of whole pixels inside the host's
\* bounds, endSelection with remove_original = True returns a new item whose
\* bitmap is the host's pixels at [x,y,w,h], and leaves the host with that
\* region fully transparent (TRANSPARENT) or filled flat with the colour of the
\* selection's centre pixel (AUTO_FILL, either middle pixel when a side is
\* even) and with every other pixel as it was.
C6_Inside ==
    /\ last.op = "endSelection"
    /\ last.remove_original
    /\ ~IsEmpty(last.local)
    /\ \A k \in 1..4 : last.local[k] % 4 = 0
    /\ Intersected(last.local, last.bounds) = last.local
CentrePixels(rc) ==
    { (rc[1] + rc[3] - 1) \div 2, (rc[1] + rc[3]) \div 2 }
        \X { (rc[2] + rc[4] - 1) \div 2, (rc[2] + rc[4]) \div 2 }
FillColours(mode, b, rc) ==
    IF mode = "TRANSPARENT" THEN { Transparent }
    ELSE { b.px[q] : q \in CentrePixels(rc) }
Filled(b, rc, c) ==
    Bitmap(b.w, b.h, [p \in Grid(b.w, b.h) |-> IF InRect(rc, p) THEN c ELSE b.px[p]])
C6_ExtractedPixels ==
    C6_Inside =>
        /\ last.extracted # NoItem
        /\ item_pixmap[last.extracted] = copy(last.pixmap, toAlignedRect(last.local))
        /\ \E c \in FillColours(last.fill_mode, last.pixmap, toAlignedRect(last.local)) :
               item_pixmap[last.item] = Filled(last.pixmap, toAlignedRect(last.local), c)

\* The part of C6 that is about the TRANSPARENT mode and the new item.
C6_TransparentMode ==
    (C6_Inside /\ last.fill_mode = "TRANSPARENT") => C6_ExtractedPixels
C6_NewItemPixels ==
    C6_Inside =>
        /\ last.extracted # NoItem
        /\ item_pixmap[last.extracted] = copy(last.pixmap, toAlignedRect(last.local))

\* C7: endSelection with remove_original = False leaves the host's bitmap and
\* its cached image bytes as they were, whatever the rectangle and fill mode.
C7_CopyLeavesHost ==
    (last.op = "endSelection" /\ ~last.remove_original) =>
        /\ item_pixmap[last.item] = last.pixmap
        /\ image_bytes[last.item] = last.bytes

\* A copy in AUTO_FILL mode has returned an item with an opaque pixel.
C7_Witness ==
    /\ last.op = "endSelection"
    /\ ~last.remove_original
    /\ last.fill_mode = "AUTO_FILL"
    /\ last.extracted # NoItem
    /\ \E p \in DOMAIN item_pixmap[last.extracted].px :
           item_pixmap[last.extracted].px[p] # Transparent

\* C8: a click on X's row of the layer list leaves exactly X selected in the
\* scene, a click on X in the scene leaves exactly X's row selected in the
\* list; the handler of the side that changed runs once, the handler of the
\* other side does not run.
C8_SelectionSync ==
    /\ last.op \in { "layer_select", "layer_reselect" } =>
           /\ SelectedItems(World) = { last.item }
           /\ layer_selected = { last.item }
           /\ last.layerRuns = (IF last.op = "layer_select" THEN 1 ELSE 0)
           /\ last.sceneRuns = 0
    /\ last.op \in { "scene_select", "scene_reselect" } =>
           /\ layer_selected = { last.item }
           /\ SelectedItems(World) = { last.item }
           /\ last.sceneRuns = (IF last.op = "scene_select" THEN 1 ELSE 0)
           /\ last.layerRuns = 0

\* A click on a row has moved the selection to one of three items.
C8_Witness ==
    /\ last.op = "layer_select"
    /\ last.layerRuns = 1
    /\ Cardinality(scene_items) >= 3
    /\ SelectedItems(World) = { last.item }

\* C9: when a handler has taken the tool from SELECTION to another tool, the
\* former host has no overlay, the view has no selection host, the creating
\* and drop flags are false and the drop position is cleared.
C9_LeavingSelectionCancels ==
    (last.tool = "SELECTION" /\ current_tool # "SELECTION") =>
        /\ selection_host = NoItem
        /\ ~selection_creating
        /\ ~selection_drop_active
        /\ selection_drop_pos = NoPoint
        /\ last.host # NoItem => ~selection_overlay[last.host].present

\* A toolbar button has ended the SELECTION tool while the host had an overlay.
C9_Witness ==
    /\ last.op = "set_tool"
    /\ last.tool = "SELECTION"
    /\ current_tool # "SELECTION"
    /\ last.phase # "NONE"

\* C10: endSelection returns a new item only when the overlay of the host was
\* LOCKED as the event arrived, never straight from CREATING.
C10_ExtractionOnlyFromLocked ==
    last.extracted # NoItem => last.phase = "LOCKED"

\* The same for the mouse and the context menu alone.
C10_MouseExtractsFromLocked ==
    (last.extracted # NoItem /\ last.op # "keyPressEvent") => last.phase = "LOCKED"


\* C11: every raster item owns at most one selection overlay, the overlay it
\* refers to is its only one in the scene, at most one overlay exists in the
\* whole scene, and it belongs to the selection host of the view.
C11_OneOverlay ==
    /\ \A i \in Items :
           selection_overlay[i].in_scene = IF selection_overlay[i].present THEN 1 ELSE 0
    /\ Cardinality({ i \in Items : selection_overlay[i].present }) <= 1
    /\ \A i \in Items : selection_overlay[i].present => i = selection_host
\* A press on a raster item while another item hosts a locked overlay: the
\* pressed item becomes the host and owns the only overlay.
C11_Witness ==
    /\ last.op = "mousePressEvent"
    /\ last.phase = "LOCKED"
    /\ last.host # NoItem
    /\ selection_host \notin { NoItem, last.host }
    /\ selection_overlay[selection_host].present
    /\ ~selection_overlay[last.host].present

\* The handlers with a hook, and the hook of each.
EventOps == { "mousePressEvent", "mouseMoveEvent", "mouseReleaseEvent", "keyPressEvent" }
HookOf(op) ==
    CASE op = "mousePressEvent" -> "_on_view_mouse_press"
      [] op = "mouseMoveEvent" -> "_on_view_mouse_move"
      [] op = "mouseReleaseEvent" -> "_on_view_mouse_release"
      [] op = "keyPressEvent" -> "_on_key_press"
StepsSet == { last.steps[k] : k \in 1..Len(last.steps) }
PluginEvent == last.op \in EventOps /\ last.plugin # NoPlugin
OfferedFirst ==
    /\ Len(last.steps) >= 3
    /\ last.steps[2] = HookOf(last.op)
    /\ "built-in" \in StepsSet => last.steps[3] = "False"

C13_RaisingHookIsolated ==
    (PluginEvent /\ "raised" \in StepsSet)
        => /\ ~last.raised
           /\ active_plugin_tool = NoPlugin
           /\ current_tool = last.tool
           /\ selection_host = last.host
           /\ << selection_creating, selection_drop_active >> = last.flags

\* C14: an item that is not in the scene has no handle set and no overlay in
\* the scene, and the view does not refer to it as selection host, interacting
\* item or drawing item, whichever way it left the scene.
C14_NothingOfRemovedItems ==
    \A i \in 1..made :
        i \notin scene_items
            => /\ item_handles[i] # "scene"
               /\ ~selection_overlay[i].present
               /\ selection_host # i
               /\ interacting_item # i
               /\ drawing_item # i

\* C15: an item of the scene has a handle set exactly when it is selected.
C15_HandlesIffSelected ==
    \A i \in scene_items : (item_handles[i] # "none") <=> (i \in item_selected)

\* C16: a locked and selected overlay has a handle set of eight resize
\* handles and no rotate handle.
C16_LockedOverlayHasHandles ==
    \A i \in Items :
        (OverlayPhase = "LOCKED" /\ i = selection_host /\ selection_overlay[i].selected)
            => selection_overlay[i].handles = SelectionHandles(TRUE, FALSE)

\* C17: a primitive drawn on the empty canvas from one point to another is
\* the only item, its rectangle spans the two points, it is the top layer
\* entry with z-value 1, and the undo command that follows takes it out of
\* the scene and the layer list.
C17_DrawnItem ==
    (last.op = "mouseReleaseEvent" /\ last.added # << >> /\ made = 1)
        => /\ last.added = << 1 >>
           /\ item_kind[1] \in { "rect", "ellipse" }
           /\ scene_items = { 1 }
           /\ layer_rows = << 1 >>
           /\ item_z[1] = 1
C17_DrawUndo ==
    /\ []C17_DrawnItem
    /\ [][(last.op = "mouseReleaseEvent" /\ last.added # << >> /\ last'.op = "undo")
            => (last.added[1] \notin scene_items'
                /\ last.added[1] \notin SeqSet(layer_rows'))]_vars

\* The layer list and the z-values after adjust_layer_z(d) with current row r.
Swapped(rows, r, d) ==
    [k \in 1..Len(rows) |-> IF k = r THEN rows[r + d]
                            ELSE IF k = r + d THEN rows[r]
                            ELSE rows[k]]
AdjustedBy(r, d) ==
    IF r = 0 \/ r + d < 1 \/ r + d > Len(layer_rows)
    THEN layer_rows' = layer_rows /\ item_z' = item_z
    ELSE /\ layer_rows' = Swapped(layer_rows, r, d)
         /\ \A k \in 1..Len(layer_rows) :
                item_z'[layer_rows'[k]] = Len(layer_rows) - (k - 1)
         /\ \A i \in Items \ SeqSet(layer_rows) : item_z'[i] = item_z[i]
\* C18: adjust_layer_z swaps the current layer entry with the adjacent one
\* and reassigns the z-values; moving the top entry up, the bottom entry down,
\* or moving without a current row changes neither the order nor a z-value.
C18_AdjustLayerZ ==
    [][/\ last'.op = "bring_forward" => AdjustedBy(currentRow(World), -1)
       /\ last'.op = "send_backward" => AdjustedBy(currentRow(World), 1)]_vars
\* In the list [2, 1] the bottom entry was moved up: the list is [1, 2] and
\* item 1 has z-value 2, item 2 z-value 1.
C18_Witness ==
    /\ last.op = "bring_forward"
    /\ last.item = 1
    /\ layer_rows = << 1, 2 >>
    /\ item_z[1] = 2 /\ item_z[2] = 1

\* clamp(old_scale * d1 / d0, 0.1, 10.0) in tenths, for a whole result
Clamped(old_scale, d0, d1) ==
    Max({ 1, Min({ FactorLimit * UnitScale, (old_scale * d1) \div d0 }) })
\* C19: a drag of a resize handle from distance d0 to distance d1 sets the
\* scale to clamp(old_scale * d1 / d0, 0.1, 10.0), so the scale is never below
\* 0.1 nor above 10.0.
C19_ClampedScale ==
    (last.op = "ResizeHandle.mouseMoveEvent" /\ Abs(last.handle.vector[1]) # 0)
        => /\ item_scale[last.item] =
                  Clamped(last.handle.scale, Abs(last.handle.vector[1]), last.event[1])
           /\ item_scale[last.item] >= 1
           /\ item_scale[last.item] <= FactorLimit * UnitScale
\* The same with the limits on the factor of the drag, as the code has them:
\* the scale is the scale at the press times clamp(d1 / d0, 0.1, 10.0), and a
\* drag onto the centre changes nothing.
C19_ClampedFactor ==
    (last.op = "ResizeHandle.mouseMoveEvent" /\ Abs(last.handle.vector[1]) # 0)
        => item_scale[last.item] =
               IF last.event[1] = 0 THEN last.scale[last.item]
               ELSE Rescaled(last.handle.scale, Abs(last.handle.vector[1]), last.event[1])

\* C20: every operation of the UndoManager that changes the undo stack or the
\* redo stack emits the four notifications once, with the values of
\* can_undo(), can_redo(), undo_description() and redo_description() of the
\* stacks as the operation leaves them.
C20_NotificationsFollowStacks ==
    [][(/\ last'.op \in { "execute", "push", "undo", "redo", "end_group", "clear" }
        /\ undo_stack' # undo_stack \/ redo_stack' # redo_stack)
       => last'.emitted =
              << << undo_stack' # << >>, redo_stack' # << >>,
                    IF undo_stack' # << >> THEN undo_stack'[Len(undo_stack')].desc ELSE "",
                    IF redo_stack' # << >> THEN redo_stack'[Len(redo_stack')].desc ELSE "" >> >>]_vars
\* An undo has left an entry on both stacks and has announced both
\* descriptions.
C20_Witness ==
    /\ last.op = "undo"
    /\ undo_stack # << >>
    /\ redo_stack # << >>
    /\ Len(last.emitted) = 1
    /\ last.emitted[1][1] /\ last.emitted[1][2]
    /\ last.emitted[1][3] # last.emitted[1][4]

\* C21: begin_group followed by end_group with no execute or push in between
\* pushes nothing.  begin_group opens a group without children and leaves both
\* stacks alone; end_group of a group that has no children leaves the undo
\* stack and the redo stack as they are, emits nothing and drops the group.
C21_EmptyGroupDiscarded ==
    [][/\ last'.op = "begin_group" =>
              /\ undo_stack' = undo_stack
              /\ redo_stack' = redo_stack
              /\ Pop(group_stack') = group_stack
              /\ Top(group_stack').children = << >>
       /\ (last'.op = "end_group" /\ group_stack # << >>
               /\ Top(group_stack).children = << >>) =>
              /\ undo_stack' = undo_stack
              /\ redo_stack' = redo_stack
              /\ group_stack' = Pop(group_stack)
              /\ last'.emitted = << >>]_vars
\* An empty group has been closed right after it was opened, with an entry
\* on each stack.
C21_Witness ==
    /\ last.op = "end_group"
    /\ last.open # << >>
    /\ Top(last.open).children = << >>
    /\ last.item = next_action
    /\ undo_stack # << >>
    /\ redo_stack # << >>

\* The handlers that reach _finalize_selection: the release that ends a drop
\* gesture, the double click, the keys G, Return and C, and the menu entries
\* that grab or copy.
C22_Finalizes ==
    \/ last'.op = "mouseReleaseEvent" /\ ~selection_creating /\ selection_drop_active
    \/ last'.op = "mouseDoubleClickEvent" /\ ~selection_creating
    \/ last'.op = "keyPressEvent" /\ last'.event[1] \in { "G", "Return" }
    \/ last'.op = "keyPressEvent" /\ last'.event[1] = "C" /\ ~selection_creating
    \/ /\ last'.op = "contextMenuEvent" /\ ~selection_creating
       /\ last'.event[1] \in { "Grab Selection", "Copy Selection" }
\* C22: when the overlay rectangle, mapped to the host's coordinates, has an
\* empty intersection with the host's pixel bounds, endSelection returns
\* nothing, destroys the overlay and leaves the host's bitmap as it was; the
\* view then emits no item-added event and does not change the current tool.
C22_EmptySelectionCancels ==
    [][(/\ current_tool = "SELECTION"
        /\ _current_overlay(World) # NoItem
        /\ IsEmpty(_selection_rects(World, selection_host))
        /\ C22_Finalizes)
       => /\ last'.extracted = NoItem
          /\ made' = made
          /\ ~selection_overlay'[selection_host].present
          /\ selection_overlay'[selection_host].in_scene = 0
          /\ item_pixmap' = item_pixmap
          /\ image_bytes' = image_bytes
          /\ last'.added = << >>
          /\ layer_rows' = layer_rows
          /\ current_tool' = current_tool]_vars
\* A drop gesture has ended on a locked overlay without area: nothing was
\* extracted, the overlay is gone and the tool is still SELECTION.
C22_Witness ==
    /\ last.op = "mouseReleaseEvent"
    /\ last.phase = "LOCKED"
    /\ last.flags[2]
    /\ last.host # NoItem
    /\ last.extracted = NoItem
    /\ ~selection_overlay[last.host].present
    /\ selection_host = NoItem
    /\ current_tool = "SELECTION"

\* What a drag of a resize handle, and of the rotate handle, of item i gives
\* when the handle is pressed at the point the tool was pressed at, with the
\* item as it was then, and the pointer is at p.
C23_HandleScale(i, p) ==
    ResizeHandle_mouseMoveEvent(
        ResizeHandle_mousePressEvent([World EXCEPT !.scale[i] = start_scale], i, start_pos),
        p).scale[i]
C23_HandleRotation(i, p) ==
    RotateHandle_mouseMoveEvent(
        World,
        RotateHandle_mousePressEvent([World EXCEPT !.rot[i] = start_rotation], i, start_pos),
        p).rot[i]
WholeLength(v) == \E n \in 0..(Abs(v[1]) + Abs(v[2])) : n * n = v[1] * v[1] + v[2] * v[2]
C23_Comparable(i, p) ==
    /\ WholeLength(FromCenter(i, start_pos))
    /\ WholeLength(FromCenter(i, p))
    /\ Exact(start_scale, hypot(FromCenter(i, start_pos)[1], FromCenter(i, start_pos)[2]),
             hypot(FromCenter(i, p)[1], FromCenter(i, p)[2]))
C23_ScaleMatches ==
    (/\ last'.op = "mouseMoveEvent" /\ current_tool = "SCALE"
     /\ interacting_item # NoItem
     /\ C23_Comparable(interacting_item, last'.event[1]))
    => item_scale'[interacting_item] = C23_HandleScale(interacting_item, last'.event[1])
C23_RotationMatches ==
    (last'.op = "mouseMoveEvent" /\ current_tool = "ROTATE" /\ interacting_item # NoItem)
    => item_rotation'[interacting_item]
           = C23_HandleRotation(interacting_item, last'.event[1])
\* C23: a canvas drag with the SCALE tool and a drag of a resize handle of the
\* same item, with the same press point and the same pointer position, give
\* the same scale, and a drag with the ROTATE tool gives the same rotation as
\* a drag of the rotate handle.
C23_ToolDragMatchesHandleDrag == [][C23_ScaleMatches /\ C23_RotationMatches]_vars
\* The part of C23 that is about the ROTATE tool.
C23_RotateDragMatchesHandleDrag == [][C23_RotationMatches]_vars

\* The scene point the centre of the pixmap of item n lies at.
C24_CentreOf(pos, pixmap, scale) ==
    << pos[1] + (2 * pixmap.w * scale) \div 10, pos[2] + (2 * pixmap.h * scale) \div 10 >>
C24_PressArmsDrop ==
    (/\ last'.op = "mousePressEvent"
     /\ current_tool = "SELECTION"
     /\ OverlayPhase = "LOCKED"
     /\ \/ itemAt(World, last'.event[1])[1] = "none"
        \/ /\ itemAt(World, last'.event[1])[1] = "item"
           /\ item_kind[itemAt(World, last'.event[1])[2]] # "raster")
    => (selection_drop_active' /\ OverlayPhase' = "LOCKED")
C24_ReleaseExtracts ==
    (/\ last'.op = "mouseReleaseEvent"
     /\ current_tool = "SELECTION"
     /\ OverlayPhase = "LOCKED"
     /\ selection_drop_active
     /\ last'.extracted # NoItem)
    => C24_CentreOf(item_pos'[last'.extracted], item_pixmap'[last'.extracted],
                    item_scale'[last'.extracted]) = last'.event[1]
\* C24: with the SELECTION tool and a LOCKED overlay, a press outside the
\* overlay and outside any raster item arms the drop gesture, and the next
\* release of the left button extracts with the scene point of that release
\* as the centre of the new item, whatever moves came in between.
C24_DropAtReleasePoint == [][C24_PressArmsDrop /\ C24_ReleaseExtracts]_vars
\* The part of C24 that is about the press.
C24_PressOutsideArmsDrop == [][C24_PressArmsDrop]_vars
\* The same for a pointer that was last moved to, or was pressed at, the
\* point of release, other than the scene's origin.
C24_DropAtLastPoint ==
    [][(/\ last'.op = "mouseReleaseEvent"
        /\ selection_drop_pos = last'.event[1]
        /\ selection_drop_pos # << 0, 0 >>)
       => C24_ReleaseExtracts]_vars

\* Between two handlers nothing is pending, no path is queued twice and the
\* timer runs whenever a path is queued.
C25_Quiescent ==
    /\ thumbnail_cache.pending = {}
    /\ \A j, k \in 1..Len(thumbnail_cache.queue) :
           thumbnail_cache.queue[j] = thumbnail_cache.queue[k] => j = k
    /\ thumbnail_cache.queue # << >> => thumbnail_cache.timer
\* A tick takes the head of the queue and nothing else, has that path alone
\* pending while the thumbnail is generated, and stops the timer when, and
\* only when, it finds the queue empty.
C25_OnePerTick ==
    last'.op = "_process_queue" =>
        /\ thumbnail_cache.queue # << >> =>
               /\ thumbnail_cache'.queue = Tail(thumbnail_cache.queue)
               /\ last'.seen = { Head(thumbnail_cache.queue) }
               /\ thumbnail_cache'.timer
        /\ thumbnail_cache.queue = << >> =>
               /\ last'.seen = {}
               /\ ~thumbnail_cache'.timer
               /\ thumbnail_cache'.queue = << >>
\* C25: the drip-feed of thumbnails processes at most one queued path per
\* tick of the timer and never overlaps itself: at most one path is pending,
\* none between ticks, no path is queued twice; once the requests have
\* stopped every queued path is eventually processed, and the timer stops on
\* the first tick that finds the queue empty.
C25_DripFeed ==
    /\ []C25_Quiescent
    /\ [][C25_OnePerTick]_vars
    /\ \A p \in Paths :
           (p \in SeqSet(thumbnail_cache.queue))
               ~> (last.op = "_process_queue" /\ last.item = p /\ last.seen = { p })
    /\ <>[](thumbnail_cache.queue = << >> /\ ~thumbnail_cache.timer)
\* A tick has processed one path while another is still waiting.
C25_Witness ==
    /\ last.op = "_process_queue"
    /\ last.seen = { last.item }
    /\ Len(last.queue) = 2
    /\ Len(thumbnail_cache.queue) = 1
    /\ thumbnail_cache.timer
    /\ thumbnail_cache.cache # << >>

C26_SelectionKept ==
    /\ { i \in scene_items' : i \in item_selected' }
           = { i \in scene_items : i \in item_selected }
    /\ scene_items' = scene_items
C26_OverlayKept ==
    (selection_host # NoItem /\ selection_overlay[selection_host].present) =>
        /\ selection_host' = selection_host
        /\ selection_overlay'[selection_host].present
        /\ selection_overlay'[selection_host].in_scene = 1
        /\ selection_overlay'[selection_host].visible
               = selection_overlay[selection_host].visible
        /\ selection_overlay'[selection_host].selected
               = selection_overlay[selection_host].selected
        /\ selection_overlay'[selection_host].rect = selection_overlay[selection_host].rect
\* C26: after _capture_scene_image has returned, with an image or with None,
\* the selected items of the scene are those selected before the call, and an
\* active selection overlay is still on its host, visible and selected as it
\* was before the call.
C26_CaptureRestores ==
    [][last'.op = "_capture_scene_image" => (C26_SelectionKept /\ C26_OverlayKept)]_vars
\* The part of C26 that is about the selected items.
C26_CaptureRestoresItems ==
    [][last'.op = "_capture_scene_image" => C26_SelectionKept]_vars
\* The part about the overlay, for a host that is not selected itself.
C26_CaptureRestoresOverlay ==
    [][(last'.op = "_capture_scene_image"
            /\ (selection_host # NoItem => selection_host \notin item_selected))
       => C26_OverlayKept]_vars

\* Actions are numbered as they are constructed, and each is constructed as
\* it is executed or pushed: the order of execution is the order of the ids.
C27_Ids(calls) == [k \in 1..Len(calls) |-> calls[k][2]]
C27_Decreasing(s) == \A j, k \in 1..Len(s) : j < k => s[j] > s[k]
C27_EntryReversed ==
    (last'.op = "undo" /\ group_stack = << >> /\ undo_stack # << >>)
    => (last'.calls # << >> /\ C27_Decreasing(C27_Ids(last'.calls)))
C27_EntriesReversed ==
    (/\ last'.op = "undo" /\ group_stack = << >> /\ undo_stack # << >>
     /\ last.op = "undo" /\ last.calls # << >>
     /\ Len(last.before) < MaxHistory)
    => C27_Decreasing(C27_Ids(last.calls \o last'.calls))
\* C27: with every group closed and fewer than max_history entries, repeated
\* undo() calls the undo methods of the actions in exactly the reverse of the
\* order in which the actions were executed, also for nested groups: each
\* undo() calls them in falling order, and goes on below where the undo()
\* before it ended.
C27_UndoReversesExecution == [][C27_EntryReversed /\ C27_EntriesReversed]_vars
\* The part of C27 that is about the children of one entry.
C27_EachEntryReversed == [][C27_EntryReversed]_vars

C28_ExecuteClearsRedo == last.op = "execute" => redo_stack = << >>
\* C28: whenever an action has been executed through execute since the last
\* undo(), the redo stack is empty, also while a group is open: execute
\* leaves the redo stack empty, and no operation but undo() puts an entry on an
\* empty redo stack.
C28_NoRedoAfterExecute ==
    /\ []C28_ExecuteClearsRedo
    /\ [][(redo_stack = << >> /\ last'.op # "undo") => redo_stack' = << >>]_vars
\* The same for execute outside a group.
C28_NoRedoAfterExecuteOutsideGroup ==
    /\ []((last.op = "execute" /\ last.open = << >>) => redo_stack = << >>)
    /\ [][(redo_stack = << >> /\ last'.op # "undo") => redo_stack' = << >>]_vars

\* C29: every plugin id that has a PluginAPI in the API registry also has an
\* entry in the plugin registry, after any sequence of load_plugin,
\* unload_plugin, reload_plugin and enable_plugin calls, failing ones included.
C29_ApiHasPlugin == DOMAIN plugin_manager._plugin_apis \subseteq DOMAIN plugin_manager._plugins
\* The same after the calls that emit no pluginError.
C29_ApiHasPluginUnlessError ==
    [][(/\ DOMAIN plugin_manager._plugin_apis \subseteq DOMAIN plugin_manager._plugins
        /\ last'.op \in { "load_plugin", "unload_plugin", "reload_plugin", "enable_plugin" }
        /\ \A k \in 1..Len(last'.emitted) : last'.emitted[k][1] # "pluginError")
       => DOMAIN plugin_manager'._plugin_apis \subseteq DOMAIN plugin_manager'._plugins]_vars

C30_Overlays == crop_tool.orphans + (IF crop_tool._crop_overlay.present THEN 1 ELSE 0)
C30_AtMostOne == C30_Overlays <= 1
C30_OnlyInCropMode == C30_Overlays > 0 => crop_tool._crop_mode_active
C30_NoneAfterDeactivate ==
    last.op = "deactivate_crop_mode"
    => (C30_Overlays = 0 /\ active_plugin_tool # "crop_tool")
\* C30: at most one CropOverlay is in the scene, one is in the scene only
\* while crop mode is active, and after deactivate_crop_mode none remains and
\* the plugin is not the active tool.
C30_OneOverlayInCropMode == C30_AtMostOne /\ C30_OnlyInCropMode /\ C30_NoneAfterDeactivate
\* The same of the overlay the plugin refers to.
C30_OwnOverlayInCropMode ==
    /\ crop_tool._crop_overlay.present => crop_tool._crop_mode_active
    /\ last.op = "deactivate_crop_mode"
       => (~crop_tool._crop_overlay.present /\ active_plugin_tool # "crop_tool")
    /\ crop_tool._crop_mode_active <=> active_plugin_tool = "crop_tool"
=============================================================================
